---- MODULE Spec2Model ----
(***************************************************************************)
(* Phonon density of states (pymatgen.phonon.dos): the PhononDos value     *)
(* object, its lazily cached positive-frequency sub-range, the +           *)
(* combination and the five thermodynamic quantities (Spec, SpecThermo);   *)
(* CompletePhononDos, its per-site and per-element decomposition and the   *)
(* dict serialization, on a heap of array cells (SpecComplete); every     *)
(* public operation on one instance of either class (SpecPublic); threads  *)
(* interleaved on one instance (SpecThreads); the energy models of         *)
(* pymatgen.analysis.energy_models, with working and with failing          *)
(* collaborators (SpecEnergy, SpecFaults); and the unit table freq_units   *)
(* of pymatgen.phonon.plotter (SpecUnits).                                 *)
(*                                                                         *)
(* Numbers.  Frequencies and densities are integers.  A float result is    *)
(* kept exact: a quantity  q + SUM_f w[f] * g(f)  where q and the w[f] are  *)
(* integers over a common denominator and g(f) is the (finite) value of the *)
(* integrand's temperature weight at frequency f, kept as a symbol.  The   *)
(* IEEE specials the integrands produce (0 * inf, 0 / 0, log 0, log of a    *)
(* negative number) are the classes "nan", "inf" and "-inf".  Physical     *)
(* constants are carried as the unit of the result.                        *)
(***************************************************************************)
EXTENDS Integers, Sequences, FiniteSets, TLC

VARIABLES heap, ret

vars == <<heap, ret>>

\* ------------------------------------------------------------------ bounds
\* longest sampled axis of the instances the thermodynamic queries are run on
MaxLen == 3
\* most PhononDos instances a caller constructs and keeps
MaxObjs == 2

\* ------------------------------------------------------------------ inputs
FreqVals == {-1, 0, 1, 2}
DensVals == {0, 2}
ScenarioFreqs == <<-1, 0, 1, 2>>
ScenarioDens == <<0, 0, 2, 2>>
Temps == {0, 300}
Sigmas == {-1, 0, 1, 2}
\* composition of the structures passed to the queries: 4 atoms, 2 in the reduced
\* formula, so 2 formula units
Structs == <<[num_atoms |-> 4, reduced_num_atoms |-> 2]>>
StructArgs == 0..Len(Structs)

Range(s) == {s[k] : k \in 1..Len(s)}
SymFreqs == FreqVals \cup Range(ScenarioFreqs)

Ascending(f) == \A k \in 1..(Len(f) - 1) : f[k] <= f[k + 1]
\* axes that are not ascending, which the constructor accepts as well
UnsortedAxes == {<<1, -1>>, <<0, -1, 1>>, <<2, 1, 0>>}
ThermoAxes ==
    {f \in UNION {[1..k -> FreqVals] : k \in 0..MaxLen} : Ascending(f)}
        \cup UnsortedAxes \cup {ScenarioFreqs}
ThermoInputs ==
    UNION {{<<f, d>> : d \in IF f = ScenarioFreqs THEN {ScenarioDens} ELSE [1..Len(f) -> DensVals]} :
               f \in ThermoAxes}

\* ------------------------------------------------------------ exact numbers
\* an IEEE value scaled to integers: q + SUM_f w[f] * g(f) when finite
ZeroW == [f \in SymFreqs |-> 0]
Fin(q, w) == [q |-> q, w |-> w, cls |-> "fin"]
Num(q) == [q |-> q, w |-> ZeroW, cls |-> "fin"]
Sym(f) == [q |-> 0, w |-> [g \in SymFreqs |-> IF g = f THEN 1 ELSE 0], cls |-> "fin"]
NaN == [q |-> 0, w |-> ZeroW, cls |-> "nan"]
PosInf == [q |-> 0, w |-> ZeroW, cls |-> "inf"]
NegInf == [q |-> 0, w |-> ZeroW, cls |-> "-inf"]

\* IEEE addition on the classes; finite parts add exactly
ExtAdd(a, b) ==
    IF a.cls = "nan" \/ b.cls = "nan" THEN NaN
    ELSE IF a.cls = "fin" /\ b.cls = "fin"
         THEN [q |-> a.q + b.q, w |-> [f \in SymFreqs |-> a.w[f] + b.w[f]], cls |-> "fin"]
    ELSE IF a.cls = "fin" THEN b
    ELSE IF b.cls = "fin" THEN a
    ELSE IF a.cls = b.cls THEN a
    ELSE NaN

\* IEEE multiplication by the integer n (0 * inf = nan)
ExtScale(a, n) ==
    IF a.cls = "nan" THEN NaN
    ELSE IF a.cls = "fin" THEN [q |-> a.q * n, w |-> [f \in SymFreqs |-> a.w[f] * n], cls |-> "fin"]
    ELSE IF n = 0 THEN NaN
    ELSE IF n > 0 THEN a
    ELSE IF a.cls = "inf" THEN NegInf ELSE PosInf

RECURSIVE ExtSum(_)
ExtSum(s) == IF Len(s) = 0 THEN Num(0) ELSE ExtAdd(Head(s), ExtSum(Tail(s)))

\* a float: the IEEE value x / den (den > 0), in the given unit
Quot(x, den) == [x |-> x, den |-> den]
\* division by the positive fraction num / den, multiplication by the fraction num / den
QuotDiv(v, num, den) == [x |-> ExtScale(v.x, den), den |-> v.den * num]
QuotMul(v, num, den) == [x |-> ExtScale(v.x, num), den |-> v.den * den]
\* x1 / den1 = x2 / den2 as IEEE values (two nan results count as the same result)
QuotEq(a, b) == ExtScale(a.x, b.den) = ExtScale(b.x, a.den)

\* ------------------------------------------------------------- outcomes
Return(v) == [tag |-> "return", val |-> v]
Raise(exc, msg) == [tag |-> "raise", exc |-> exc, msg |-> msg]
NoPositiveFrequencies == [tag |-> "raise", exc |-> "ValueError", msg |-> "No positive frequencies found"]
BroadcastError == [tag |-> "raise", exc |-> "ValueError", msg |-> "operands could not be broadcast together"]
NoCall == [op |-> "none", self |-> 0, other |-> 0, t |-> 0, structure |-> 0, out |-> [tag |-> "none"]]
Called(op, self, other, t, structure, out) ==
    [op |-> op, self |-> self, other |-> other, t |-> t, structure |-> structure, out |-> out]

IntVal(n) == [v |-> [x |-> Num(n), den |-> 1], type |-> "int"]
FloatVal(v, unit, basis, t) == [v |-> v, t |-> t, type |-> "float", unit |-> unit, basis |-> basis]

\* ------------------------------------------------------ numpy primitives
\* shape of the elementwise combination of two 1-d arrays, -1 when they do not broadcast
broadcast_len(n, m) == IF n = m THEN n ELSE IF n = 1 THEN m ELSE IF m = 1 THEN n ELSE -1
bidx(n, k) == IF n = 1 THEN 1 ELSE k

\* mutant of slice_from: the slice starts one sample late
slice_after(a, start) == SubSeq(a, start + 2, Len(a))

\* a[start:] for a 0-based start
slice_from(a, start) == SubSeq(a, start + 1, Len(a))

\* mutant of binsearch_left: the search of side "right"
RECURSIVE binsearch_right(_, _, _, _)
binsearch_right(arr, key, min_idx, max_idx) ==
    IF min_idx < max_idx
    THEN IF arr[min_idx + ((max_idx - min_idx) \div 2) + 1] <= key
         THEN binsearch_right(arr, key, min_idx + ((max_idx - min_idx) \div 2) + 1, max_idx)
         ELSE binsearch_right(arr, key, min_idx, min_idx + ((max_idx - min_idx) \div 2))
    ELSE min_idx

\* np.searchsorted(arr, key), side "left": numpy's binary search, whatever the order of arr
RECURSIVE binsearch_left(_, _, _, _)
binsearch_left(arr, key, min_idx, max_idx) ==
    IF min_idx < max_idx
    THEN IF arr[min_idx + ((max_idx - min_idx) \div 2) + 1] < key
         THEN binsearch_left(arr, key, min_idx + ((max_idx - min_idx) \div 2) + 1, max_idx)
         ELSE binsearch_left(arr, key, min_idx, min_idx + ((max_idx - min_idx) \div 2))
    ELSE min_idx
searchsorted(arr, key) == binsearch_left(arr, key, 0, Len(arr))

\* np.diff(x) of a 1-d array
diff(x) == [k \in 1..(IF Len(x) = 0 THEN 0 ELSE Len(x) - 1) |-> x[k + 1] - x[k]]

\* y[1:] + y[:-1]
pair_sums(y) == [k \in 1..(IF Len(y) = 0 THEN 0 ELSE Len(y) - 1) |-> ExtAdd(y[k + 1], y[k])]

\* (d * s / 2.0).sum(), with numpy's broadcasting of d against s
half_sum(d, s) ==
    IF broadcast_len(Len(d), Len(s)) < 0 THEN BroadcastError
    ELSE Return(Quot(ExtSum([k \in 1..broadcast_len(Len(d), Len(s)) |->
                                 ExtScale(s[bidx(Len(s), k)], d[bidx(Len(d), k)])]), 2))

\* np.trapz(y, x=x)
trapz(y, x) == half_sum(diff(x), pair_sums(y))

\* ------------------------------------------------------------ PhononDos
Unset(v) == [v |-> v, set |-> FALSE]
Cached(v) == [v |-> v, set |-> TRUE]

\* __init__: the two arrays are copied; no lazy property is computed yet
PhononDos(frequencies, densities) ==
    [frequencies |-> frequencies, densities |-> densities,
     ind_zero_freq |-> Unset(0), _positive_frequencies |-> Unset(<<>>),
     _positive_densities |-> Unset(<<>>)]

\* mutant of checked_index: only an index past the end is refused
checked_index_past_end(ind, n) == IF ind > n THEN NoPositiveFrequencies ELSE Return(ind)

\* the raise test on the index np.searchsorted returned
checked_index(ind, n) == IF ind >= n THEN NoPositiveFrequencies ELSE Return(ind)

\* body of the ind_zero_freq property
ind_zero_freq(self) == checked_index(searchsorted(self.frequencies, 0), Len(self.frequencies))

\* @lazy_property: the first successful evaluation is stored on the instance,
\* a raised error stores nothing
store_ind_zero_freq(self, r) ==
    IF r.tag = "raise" THEN [self |-> self, out |-> r]
    ELSE [self |-> [self EXCEPT !.ind_zero_freq = Cached(r.val)], out |-> r]

get_ind_zero_freq(self) ==
    IF self.ind_zero_freq.set THEN [self |-> self, out |-> Return(self.ind_zero_freq.v)]
    ELSE store_ind_zero_freq(self, ind_zero_freq(self))

\* body of _positive_frequencies, r the outcome of reading self.ind_zero_freq
store_positive_frequencies(r) ==
    IF r.out.tag = "raise" THEN r
    ELSE [self |-> [r.self EXCEPT !._positive_frequencies = Cached(slice_from(r.self.frequencies, r.out.val))],
          out |-> Return(slice_from(r.self.frequencies, r.out.val))]

get_positive_frequencies(self) ==
    IF self._positive_frequencies.set
    THEN [self |-> self, out |-> Return(self._positive_frequencies.v)]
    ELSE store_positive_frequencies(get_ind_zero_freq(self))

\* mutant of store_positive_densities: the densities themselves are cut to the slice
store_positive_densities_in_place(r) ==
    IF r.out.tag = "raise" THEN r
    ELSE [self |-> [r.self EXCEPT !._positive_densities = Cached(slice_from(r.self.densities, r.out.val)),
                                  !.densities = slice_from(r.self.densities, r.out.val)],
          out |-> Return(slice_from(r.self.densities, r.out.val))]

\* body of _positive_densities, r the outcome of reading self.ind_zero_freq
store_positive_densities(r) ==
    IF r.out.tag = "raise" THEN r
    ELSE [self |-> [r.self EXCEPT !._positive_densities = Cached(slice_from(r.self.densities, r.out.val))],
          out |-> Return(slice_from(r.self.densities, r.out.val))]

get_positive_densities(self) ==
    IF self._positive_densities.set
    THEN [self |-> self, out |-> Return(self._positive_densities.v)]
    ELSE store_positive_densities(get_ind_zero_freq(self))

\* ------------------------------------------------- thermodynamic integrals
\* value of the integrand's weight at one frequency f for t > 0, x = f / (2 k_B t):
\*   cv               x^2 / sinh(x)^2           0 * inf = nan at f = 0
\*   entropy          x coth(x) - ln(2 sinh x)  0 / 0 = nan at f = 0, ln of a negative below
\*   internal_energy  f coth(x)                 0 / 0 = nan at f = 0
\*   helmholtz        ln(2 sinh x)              ln 0 = -inf at f = 0, nan below
\*   zero_point_energy  f
weight(kind, f) ==
    CASE kind = "zero_point_energy" -> Num(f)
      [] kind = "cv" -> IF f = 0 THEN NaN ELSE Sym(f)
      [] kind = "entropy" -> IF f <= 0 THEN NaN ELSE Sym(f)
      [] kind = "internal_energy" -> IF f = 0 THEN NaN ELSE Sym(f)
      [] kind = "helmholtz_free_energy" -> IF f = 0 THEN NegInf ELSE IF f < 0 THEN NaN ELSE Sym(f)

\* weight(freqs) * dens, elementwise with numpy's broadcasting
integrand(kind, freqs, dens) ==
    IF broadcast_len(Len(freqs), Len(dens)) < 0 THEN BroadcastError
    ELSE Return([k \in 1..broadcast_len(Len(freqs), Len(dens)) |->
             ExtScale(weight(kind, freqs[bidx(Len(freqs), k)]), dens[bidx(Len(dens), k)])])

\* mutant of per_formula_unit: the division is left out
per_formula_unit_skipped(v, structure) == v

\* if structure: value /= formula_units     (structure 0 is None), where
\* formula_units = composition.num_atoms / composition.reduced_composition.num_atoms
per_formula_unit(v, structure) ==
    IF structure # 0
    THEN QuotDiv(v, Structs[structure].num_atoms, Structs[structure].reduced_num_atoms)
    ELSE v

\* the prefactor (pnum / pden) and the unit applied to the integral i, then the formula units
scaled(i, kind, pnum, pden, unit, t, structure) ==
    IF i.tag = "raise" THEN i
    ELSE Return(FloatVal(per_formula_unit(QuotMul(i.val, pnum, pden), structure), unit, kind, t))

\* np.trapz(weight(freqs) * dens, x=freqs)
integral(y, freqs) == IF y.tag = "raise" THEN y ELSE trapz(y.val, freqs)

\* the body of a quantity once both lazy sub-arrays were read (rd: the read of the densities)
integrate(freqs, rd, kind, pnum, pden, unit, t, structure) ==
    IF rd.out.tag = "raise" THEN rd
    ELSE [self |-> rd.self,
          out |-> scaled(integral(integrand(kind, freqs, rd.out.val), freqs),
                         kind, pnum, pden, unit, t, structure)]

\* dens = self._positive_densities, after freqs = self._positive_frequencies (rf: that read)
with_frequencies(rf, kind, pnum, pden, unit, t, structure) ==
    IF rf.out.tag = "raise" THEN rf
    ELSE integrate(rf.out.val, get_positive_densities(rf.self), kind, pnum, pden, unit, t, structure)

\* the common body of the five quantities past their t == 0 test
quantity(self, kind, pnum, pden, unit, t, structure) ==
    with_frequencies(get_positive_frequencies(self), kind, pnum, pden, unit, t, structure)

\* mutant of zero_point_energy: the factor 0.5 is left out
zero_point_energy_unhalved(self, structure) ==
    quantity(self, "zero_point_energy", 1, 1, "THZ_TO_J*Avogadro", 0, structure)

zero_point_energy(self, structure) ==
    quantity(self, "zero_point_energy", 1, 2, "THZ_TO_J*Avogadro", 0, structure)

cv(self, t, structure) ==
    IF t = 0 THEN [self |-> self, out |-> Return(IntVal(0))]
    ELSE quantity(self, "cv", 1, 1, "Boltzmann*Avogadro", t, structure)

entropy(self, t, structure) ==
    IF t = 0 THEN [self |-> self, out |-> Return(IntVal(0))]
    ELSE quantity(self, "entropy", 1, 1, "Boltzmann*Avogadro", t, structure)

\* mutant of internal_energy: at t == 0 the structure is not passed on
internal_energy_drops_structure(self, t, structure) ==
    IF t = 0 THEN quantity(self, "zero_point_energy", 1, 2, "THZ_TO_J*Avogadro", 0, 0)
    ELSE quantity(self, "internal_energy", 1, 2, "THZ_TO_J*Avogadro", t, structure)

internal_energy(self, t, structure) ==
    IF t = 0 THEN zero_point_energy(self, structure)
    ELSE quantity(self, "internal_energy", 1, 2, "THZ_TO_J*Avogadro", t, structure)

helmholtz_free_energy(self, t, structure) ==
    IF t = 0 THEN zero_point_energy(self, structure)
    ELSE quantity(self, "helmholtz_free_energy", 1, 1, "Boltzmann*Avogadro*t", t, structure)

\* ------------------------------------------------------------- smearing
RECURSIVE py_sum(_)
\* the builtin sum() over a list of numbers
py_sum(s) == IF Len(s) = 0 THEN 0 ELSE Head(s) + py_sum(Tail(s))

ZeroDivisionError == [tag |-> "raise", exc |-> "ZeroDivisionError", msg |-> "division by zero"]
FilterFailed == [tag |-> "raise", exc |-> "RuntimeError", msg |-> "gaussian_filter1d failed"]

\* avg_diff = sum(diff) / len(diff): the mean as the fraction num / den
mean(d) == IF Len(d) = 0 THEN ZeroDivisionError ELSE Return([den |-> Len(d), num |-> py_sum(d)])

\* gaussian_filter1d(input, sigma): a newly allocated array as long as the input, its
\* element k the Gaussian average of width snum / sden of the input around k; the
\* filter rejects some widths (fails)
gaussian_filter1d(input, snum, sden, fails) ==
    IF fails THEN FilterFailed
    ELSE Return([id |-> "new",
                 data |-> [k \in 1..Len(input) |-> [k |-> k, input |-> input, snum |-> snum, sden |-> sden]]])

\* mutant of smeared: with sigma == 0 nothing is to smear and the densities of the
\* instance are handed out themselves
smeared_shortcut(self, sigma, avg_diff, fails) ==
    IF avg_diff.tag = "raise" THEN [self |-> self, out |-> avg_diff]
    ELSE IF sigma = 0 THEN [self |-> self, out |-> Return([id |-> "self.densities", data |-> self.densities])]
    ELSE [self |-> self,
          out |-> gaussian_filter1d(self.densities, sigma * avg_diff.val.den, avg_diff.val.num, fails)]

\* return gaussian_filter1d(self.densities, sigma / avg_diff); the division of the
\* float sigma by the numpy float avg_diff raises nothing, a zero avg_diff gives inf or nan
smeared(self, sigma, avg_diff, fails) ==
    IF avg_diff.tag = "raise" THEN [self |-> self, out |-> avg_diff]
    ELSE [self |-> self,
          out |-> gaussian_filter1d(self.densities, sigma * avg_diff.val.den, avg_diff.val.num, fails)]

\* get_smeared_densities(sigma); diff is the list of the consecutive differences
get_smeared_densities(self, sigma, fails) == smeared(self, sigma, mean(diff(self.frequencies)), fails)

\* ---------------------------------------------------------- combination
np_equal(a, b) ==
    IF broadcast_len(Len(a), Len(b)) < 0 THEN BroadcastError
    ELSE Return([k \in 1..broadcast_len(Len(a), Len(b)) |-> a[bidx(Len(a), k)] = b[bidx(Len(b), k)]])

\* mutant of np_add: the second operand is taken twice
np_add_doubled(a, b) ==
    IF broadcast_len(Len(a), Len(b)) < 0 THEN BroadcastError
    ELSE Return([k \in 1..broadcast_len(Len(a), Len(b)) |-> b[bidx(Len(b), k)] + b[bidx(Len(b), k)]])

np_add(a, b) ==
    IF broadcast_len(Len(a), Len(b)) < 0 THEN BroadcastError
    ELSE Return([k \in 1..broadcast_len(Len(a), Len(b)) |-> a[bidx(Len(a), k)] + b[bidx(Len(b), k)]])

\* mutant of py_all: any() in place of all()
py_any(s) == \E k \in 1..Len(s) : s[k]

\* the builtin all() over a 1-d boolean array
py_all(s) == \A k \in 1..Len(s) : s[k]

IncompatibleSpectra == [tag |-> "raise", exc |-> "ValueError", msg |-> "Frequencies of both DOS are not compatible!"]

\* return PhononDos(self.frequencies, densities), densities the outcome of the sum
summed(frequencies, densities) ==
    IF densities.tag = "raise" THEN densities
    ELSE Return(PhononDos(frequencies, densities.val))

\* the guard of __add__ on eq = np.equal(self.frequencies, other.frequencies), then its body
guarded_sum(eq, self, other) ==
    IF eq.tag = "raise" THEN eq
    ELSE IF ~py_all(eq.val) THEN IncompatibleSpectra
    ELSE summed(self.frequencies, np_add(self.densities, other.densities))

__add__(self, other) == guarded_sum(np_equal(self.frequencies, other.frequencies), self, other)

__radd__(self, other) == __add__(self, other)

\* ------------------------------------------- textual forms, interpolation
\* __repr__: the two shapes, then r, the read of self._positive_frequencies
repr_of(cls, self, r) ==
    IF r.out.tag = "raise" THEN r
    ELSE [self |-> r.self,
          out |-> Return([cls |-> cls, frequencies |-> <<Len(self.frequencies)>>,
                          densities |-> <<Len(self.densities)>>, n_positive_freqs |-> Len(r.out.val)])]
__repr__(cls, self) == repr_of(cls, self, get_positive_frequencies(self))

IndexError == [tag |-> "raise", exc |-> "IndexError", msg |-> "index out of bounds"]

\* __str__: a header, then one line per frequency with self.densities[i] next to it
__str__(self) ==
    IF Len(self.densities) < Len(self.frequencies) THEN [self |-> self, out |-> IndexError]
    ELSE [self |-> self,
          out |-> Return([header |-> <<"Frequency", "Density">>,
                          rows |-> [i \in 1..Len(self.frequencies) |-> <<self.frequencies[i], self.densities[i]>>]])]

OutOfRange == [tag |-> "raise", exc |-> "ValueError", msg |-> "x is out of range of provided x_values"]

\* get_linear_interpolated_value(x_values, y_values, x): the value at x of the line
\* through the two stored points around x; some x have no such points (fails)
get_linear_interpolated_value(x_values, y_values, x, fails) ==
    IF fails THEN OutOfRange
    ELSE Return([x |-> x, x_values |-> x_values, y_values |-> y_values])

get_interpolated_value(self, frequency, fails) ==
    [self |-> self, out |-> get_linear_interpolated_value(self.frequencies, self.densities, frequency, fails)]

\* ------------------------------------------------------------- actions
\* instance i takes the state r.self the call left it in; the caller gets r.out
Apply(i, r, op, self, other, t, s) ==
    /\ heap' = [heap EXCEPT ![i] = r.self]
    /\ ret' = Called(op, self, other, t, s, r.out)

\* a caller reads a lazy property of instance i
ReadIndZeroFreq(i) == Apply(i, get_ind_zero_freq(heap[i]), "ind_zero_freq", i, 0, 0, 0)

ReadPositiveFrequencies(i) == Apply(i, get_positive_frequencies(heap[i]), "_positive_frequencies", i, 0, 0, 0)

ReadPositiveDensities(i) == Apply(i, get_positive_densities(heap[i]), "_positive_densities", i, 0, 0, 0)

CallCv(i, t, s) == Apply(i, cv(heap[i], t, s), "cv", i, 0, t, s)

CallEntropy(i, t, s) == Apply(i, entropy(heap[i], t, s), "entropy", i, 0, t, s)

CallInternalEnergy(i, t, s) == Apply(i, internal_energy(heap[i], t, s), "internal_energy", i, 0, t, s)

CallHelmholtzFreeEnergy(i, t, s) == Apply(i, helmholtz_free_energy(heap[i], t, s), "helmholtz_free_energy", i, 0, t, s)

CallZeroPointEnergy(i, s) == Apply(i, zero_point_energy(heap[i], s), "zero_point_energy", i, 0, 0, s)

\* heap[i].get_smeared_densities(sigma); ret.other is sigma
CallGetSmearedDensities(i, sigma, fails) ==
    Apply(i, get_smeared_densities(heap[i], sigma, fails), "get_smeared_densities", i, sigma, 0, 0)

\* repr(heap[i])
CallRepr(i) == Apply(i, __repr__("PhononDos", heap[i]), "__repr__", i, 0, 0, 0)

\* a caller constructs PhononDos(f, d) from two equal-length sequences and keeps it
Construct(f, d) ==
    /\ Len(heap) < MaxObjs
    /\ heap' = Append(heap, PhononDos(f, d))
    /\ ret' = Called("__init__", Len(heap) + 1, 0, 0, 0, Return(IntVal(Len(heap) + 1)))

\* heap[i] + heap[j]: the operands stay where they are, the sum is handed to the caller
CallAdd(i, j) ==
    /\ ret' = Called("__add__", i, j, 0, 0, __add__(heap[i], heap[j]))
    /\ UNCHANGED heap

\* heap[i].__radd__(heap[j]), what heap[j] + heap[i] falls back to
CallRadd(i, j) ==
    /\ ret' = Called("__radd__", i, j, 0, 0, __radd__(heap[i], heap[j]))
    /\ UNCHANGED heap

\* ------------------------------------------------------- specifications
\* axes the combination is exercised on: empty, one sample, two samples, a repeated sample
Axes == {<<>>, <<1>>, <<0, 1>>, <<1, 1>>}
DosInputs == UNION {{<<f, d>> : d \in [1..Len(f) -> DensVals]} : f \in Axes}

\* Spec: callers construct instances and combine them
Init == heap = <<>> /\ ret = NoCall

Next ==
    \/ \E x \in DosInputs : Construct(x[1], x[2])
    \/ \E i \in 1..Len(heap), j \in 1..Len(heap) : CallAdd(i, j)
    \/ \E i \in 1..Len(heap), j \in 1..Len(heap) : CallRadd(i, j)

Spec == Init /\ [][Next]_vars

\* SpecThermo: one instance, drawn from the bounded inputs, queried in any order
InitThermo == \E x \in ThermoInputs : heap = <<PhononDos(x[1], x[2])>> /\ ret = NoCall

NextThermo ==
    \/ \E i \in 1..Len(heap) : ReadIndZeroFreq(i)
    \/ \E i \in 1..Len(heap) : ReadPositiveFrequencies(i)
    \/ \E i \in 1..Len(heap) : ReadPositiveDensities(i)
    \/ \E i \in 1..Len(heap), t \in Temps, s \in StructArgs : CallCv(i, t, s)
    \/ \E i \in 1..Len(heap), t \in Temps, s \in StructArgs : CallEntropy(i, t, s)
    \/ \E i \in 1..Len(heap), t \in Temps, s \in StructArgs : CallInternalEnergy(i, t, s)
    \/ \E i \in 1..Len(heap), t \in Temps, s \in StructArgs : CallHelmholtzFreeEnergy(i, t, s)
    \/ \E i \in 1..Len(heap), s \in StructArgs : CallZeroPointEnergy(i, s)
    \/ \E i \in 1..Len(heap), sigma \in Sigmas, fails \in BOOLEAN : CallGetSmearedDensities(i, sigma, fails)
    \/ \E i \in 1..Len(heap) : CallRepr(i)

SpecThermo == InitThermo /\ [][NextThermo]_vars

\* ------------------------------------------- CompletePhononDos: the heap
\* In SpecComplete the heap is a sequence of cells: cell 1 is the aggregate, the
\* other cells are numpy arrays and the objects later calls created.  An attribute
\* holds a reference to an array cell; a list (in a dict or an argument) is a value.
\* most sites of a structure
MaxSites == 3
Ref(n) == [type |-> "ref", at |-> n]
List(s) == [type |-> "list", data |-> s]
ndarray(data) == [type |-> "ndarray", data |-> data]
Unallocated == [type |-> "unallocated"]

\* the elements of a list, or of the array a reference points at
elements(h, x) == IF x.type = "list" THEN x.data ELSE h[x.at].data

\* mutant of np_array: np.asarray(x), which hands an array back as it is
np_asarray(h, x) ==
    IF x.type = "ref" THEN [heap |-> h, ref |-> x]
    ELSE [heap |-> Append(h, ndarray(elements(h, x))), ref |-> Ref(Len(h) + 1)]

\* np.array(x): a new array holding a copy of the elements of x
np_array(h, x) == [heap |-> Append(h, ndarray(elements(h, x))), ref |-> Ref(Len(h) + 1)]

\* PhononDos.__init__ on the heap: self.frequencies = np.array(frequencies), then
\* self.densities = np.array(densities)
PhononDos_store(f, d) == [heap |-> d.heap, val |-> PhononDos(f.ref, d.ref)]
PhononDos_densities(f, densities) == PhononDos_store(f, np_array(f.heap, densities))
PhononDos_init(h, frequencies, densities) == PhononDos_densities(np_array(h, frequencies), densities)

\* an insertion-ordered dict: a sequence of [key, val] items with distinct keys
dict_has(items, key) == \E k \in 1..Len(items) : items[k].key = key
dict_get(items, key) == items[CHOOSE k \in 1..Len(items) : items[k].key = key].val
KeyError(key) == [tag |-> "raise", exc |-> "KeyError", msg |-> key]

\* {site: np.array(dens) for site, dens in pdoses.items()}
RECURSIVE dict_of_arrays(_, _, _)
dict_of_arrays_step(c, key, rest, done) ==
    dict_of_arrays(c.heap, rest, Append(done, [val |-> c.ref, key |-> key]))
dict_of_arrays(h, items, done) ==
    IF items = <<>> THEN [heap |-> h, items |-> done]
    ELSE dict_of_arrays_step(np_array(h, Head(items).val), Head(items).key, Tail(items), done)

\* CompletePhononDos.__init__: the object takes cell `at`
CompletePhononDos_store(at, structure, base, q) ==
    [heap |-> [q.heap EXCEPT ![at] =
                 [structure |-> structure, type |-> "CompletePhononDos",
                  frequencies |-> base.frequencies, densities |-> base.densities,
                  ind_zero_freq |-> base.ind_zero_freq,
                  _positive_frequencies |-> base._positive_frequencies,
                  _positive_densities |-> base._positive_densities,
                  pdos |-> q.items]],
     out |-> Return(Ref(at))]
CompletePhononDos_pdos(at, structure, p, pdoses) ==
    CompletePhononDos_store(at, structure, p.val, dict_of_arrays(p.heap, pdoses, <<>>))
CompletePhononDos_init(h, structure, total_dos, pdoses) ==
    CompletePhononDos_pdos(Len(h) + 1, structure,
                           PhononDos_init(Append(h, Unallocated), total_dos.frequencies, total_dos.densities),
                           pdoses)

\* mutant of get_site_dos: the returned instance shares the aggregate's arrays
get_site_dos_shared(h, self, site) ==
    IF ~dict_has(self.pdos, site) THEN [heap |-> h, out |-> KeyError(site)]
    ELSE [heap |-> h, out |-> Return(PhononDos(self.frequencies, dict_get(self.pdos, site)))]

\* return PhononDos(self.frequencies, self.pdos[site])
returned(r) == [heap |-> r.heap, out |-> Return(r.val)]
get_site_dos(h, self, site) ==
    IF ~dict_has(self.pdos, site) THEN [heap |-> h, out |-> KeyError(site)]
    ELSE returned(PhononDos_init(h, self.frequencies, dict_get(self.pdos, site)))

\* mutant of iadd: the array is overwritten instead of added to
iadd_overwrite(h, target, src) ==
    [h EXCEPT ![target.at].data = [k \in 1..Len(h[target.at].data) |-> h[src.at].data[bidx(Len(h[src.at].data), k)]]]

\* target += src on arrays, in place (src has the shape of target, or one element)
iadd(h, target, src) ==
    [h EXCEPT ![target.at].data =
        [k \in 1..Len(h[target.at].data) |-> h[target.at].data[k] + h[src.at].data[bidx(Len(h[src.at].data), k)]]]

\* the loop of get_element_dos over self.pdos.items(); c is np.array(atom_dos)
RECURSIVE el_dos_loop(_, _, _)
\* mutant of el_dos_step: a later site of a species already seen is not added
el_dos_step_first_only(c, el, rest, el_dos) ==
    IF ~dict_has(el_dos, el)
    THEN el_dos_loop(c.heap, rest, Append(el_dos, [val |-> c.ref, key |-> el]))
    ELSE el_dos_loop(c.heap, rest, el_dos)

el_dos_step(c, el, rest, el_dos) ==
    IF ~dict_has(el_dos, el)
    THEN el_dos_loop(c.heap, rest, Append(el_dos, [val |-> c.ref, key |-> el]))
    ELSE el_dos_loop(iadd(c.heap, dict_get(el_dos, el), c.ref), rest, el_dos)
el_dos_loop(h, items, el_dos) ==
    IF items = <<>> THEN [heap |-> h, items |-> el_dos]
    ELSE el_dos_step(np_array(h, Head(items).val), Head(items).key.specie, Tail(items), el_dos)

\* {el: PhononDos(self.frequencies, densities) for el, densities in el_dos.items()}
RECURSIVE el_dos_result(_, _, _, _)
el_dos_result_step(p, frequencies, el, rest, done) ==
    el_dos_result(p.heap, frequencies, rest, Append(done, [val |-> p.val, key |-> el]))
el_dos_result(h, frequencies, el_dos, done) ==
    IF el_dos = <<>> THEN [heap |-> h, out |-> Return(done)]
    ELSE el_dos_result_step(PhononDos_init(h, frequencies, Head(el_dos).val), frequencies,
                            Head(el_dos).key, Tail(el_dos), done)
el_dos_return(e, frequencies) == el_dos_result(e.heap, frequencies, e.items, <<>>)
get_element_dos(h, self) == el_dos_return(el_dos_loop(h, self.pdos, <<>>), self.frequencies)

\* ------------------------------------------------------- serialization
\* PhononDos.as_dict: list(self.frequencies), list(self.densities)
PhononDos_as_dict(h, self) ==
    [frequencies |-> List(elements(h, self.frequencies)), densities |-> List(elements(h, self.densities))]

\* PhononDos.from_dict: cls(d["frequencies"], d["densities"])
PhononDos_from_dict(h, d) == PhononDos_init(h, d.frequencies, d.densities)

\* Structure.as_dict / Structure.from_dict: one site dict per site, in site order
Structure_as_dict(structure) ==
    [sites |-> [k \in 1..Len(structure) |-> [species |-> structure[k].specie, abc |-> structure[k].coords]]]
Structure_from_dict(d) ==
    [k \in 1..Len(d.sites) |-> [specie |-> d.sites[k].species, coords |-> d.sites[k].abc]]

\* mutant of pdos_lists: the entries are listed in the order of the stored mapping
pdos_lists_in_mapping_order(h, self) ==
    [k \in 1..Len(self.pdos) |-> List(elements(h, self.pdos[k].val))]

\* for at in self.structure: dct["pdos"].append(list(self.pdos[at]))
pdos_lists(h, self) ==
    [k \in 1..Len(self.structure) |-> List(elements(h, dict_get(self.pdos, self.structure[k])))]

\* mutant of CompletePhononDos_as_dict: each pdos entry keeps its first element only
CompletePhononDos_as_dict_truncated(h, self) ==
    [heap |-> h,
     out |-> Return([structure |-> Structure_as_dict(self.structure),
                     frequencies |-> List(elements(h, self.frequencies)),
                     densities |-> List(elements(h, self.densities)),
                     pdos |-> [k \in 1..Len(self.pdos) |->
                                  List(SubSeq(elements(h, dict_get(self.pdos, self.structure[k])), 1, 1))]])]

\* CompletePhononDos.as_dict; self.pdos[at] raises KeyError for a site without an entry
CompletePhononDos_as_dict(h, self) ==
    IF Len(self.pdos) > 0 /\ \E k \in 1..Len(self.structure) : ~dict_has(self.pdos, self.structure[k])
    THEN [heap |-> h,
          out |-> KeyError(self.structure[CHOOSE k \in 1..Len(self.structure) :
                                              /\ ~dict_has(self.pdos, self.structure[k])
                                              /\ \A j \in 1..(k - 1) : dict_has(self.pdos, self.structure[j])])]
    ELSE [heap |-> h,
          out |-> Return([structure |-> Structure_as_dict(self.structure),
                          frequencies |-> List(elements(h, self.frequencies)),
                          densities |-> List(elements(h, self.densities)),
                          pdos |-> IF Len(self.pdos) > 0 THEN pdos_lists(h, self) ELSE <<>>])]

\* dict(zip(struct, dct["pdos"])): positional, as long as the shorter of the two
zip(struct, pdos) ==
    [k \in 1..(IF Len(struct) < Len(pdos) THEN Len(struct) ELSE Len(pdos)) |-> [val |-> pdos[k], key |-> struct[k]]]

\* CompletePhononDos.from_dict: tdos, struct and pdoss, then cls(struct, tdos, pdoss)
CompletePhononDos_from_tdos(tdos, dct) ==
    CompletePhononDos_init(tdos.heap, Structure_from_dict(dct.structure), tdos.val,
                           zip(Structure_from_dict(dct.structure), dct.pdos))
CompletePhononDos_from_dict(h, dct) == CompletePhononDos_from_tdos(PhononDos_from_dict(h, dct), dct)

\* ---------------------------------------------- CompletePhononDos: actions
\* the cells the aggregate owns; what earlier calls returned has been dropped
Release(h) == SubSeq(h, 1, 3 + Len(h[1].pdos))

\* the argument recorded for a call that takes none
NoSite == [specie |-> "none", coords |-> 0]
ApplyComplete(r, op, arg) ==
    /\ heap' = r.heap
    /\ ret' = Called(op, 1, arg, 0, 0, r.out)

CallGetSiteDos(site) == ApplyComplete(get_site_dos(Release(heap), heap[1], site), "get_site_dos", site)

CallGetElementDos == ApplyComplete(get_element_dos(Release(heap), heap[1]), "get_element_dos", NoSite)

CallAsDict == ApplyComplete(CompletePhononDos_as_dict(Release(heap), heap[1]), "as_dict", NoSite)

\* CompletePhononDos.from_dict on the dict the last call returned
CallFromDict ==
    /\ ret.op = "as_dict" /\ ret.out.tag = "return"
    /\ ApplyComplete(CompletePhononDos_from_dict(Release(heap), ret.out.val), "from_dict", ret.out.val)

\* as_dict of the PhononDos that get_site_dos just returned
CallPhononDosAsDict ==
    /\ ret.op = "get_site_dos" /\ ret.out.tag = "return"
    /\ ret' = Called("PhononDos.as_dict", ret.out.val, 0, 0, 0, Return(PhononDos_as_dict(heap, ret.out.val)))
    /\ UNCHANGED heap

\* PhononDos.from_dict on that dict; ret.self stays the instance that was serialized
ApplyPhononDos(r, self, d) ==
    /\ heap' = r.heap
    /\ ret' = Called("PhononDos.from_dict", self, d, 0, 0, Return(r.val))
CallPhononDosFromDict ==
    /\ ret.op = "PhononDos.as_dict"
    /\ ApplyPhononDos(PhononDos_from_dict(heap, ret.out.val), ret.self, ret.out.val)

\* the arrays of the instances the last call returned
ReturnedArrays ==
    IF ret.out.tag # "return" THEN {}
    ELSE IF ret.op = "get_site_dos" THEN {ret.out.val.frequencies, ret.out.val.densities}
    ELSE IF ret.op = "get_element_dos"
         THEN UNION {{ret.out.val[k].val.frequencies, ret.out.val[k].val.densities} : k \in 1..Len(ret.out.val)}
    ELSE {}

\* the value a caller writes into an array; no input holds it
Overwritten == 7

\* the caller assigns to element k of an array of a returned instance
SetItem(r, k) ==
    /\ r.type = "ref" /\ k \in 1..Len(heap[r.at].data)
    /\ heap' = [heap EXCEPT ![r.at].data[k] = Overwritten]
    /\ ret' = [ret EXCEPT !.op = "__setitem__"]

\* ------------------------------------------------ CompletePhononDos: inputs
CompleteFreqs == <<0, 1>>
SiteDens == {<<0, 2>>, <<2, 2>>}
OtherTotal == <<2, 2>>
Site(k) == [specie |-> IF k % 2 = 1 THEN "Na" ELSE "Cl", coords |-> k]
StructureOf(n) == [k \in 1..n |-> Site(k)]
Perms(n) == {p \in [1..n -> 1..n] : \A a, b \in 1..n : a # b => p[a] # p[b]}

RECURSIVE SumDens(_, _)
\* elementwise sum of the density sequences d[1..n]
SumDens(d, n) ==
    IF n = 0 THEN [i \in 1..Len(CompleteFreqs) |-> 0]
    ELSE [i \in 1..Len(CompleteFreqs) |-> d[n][i] + SumDens(d, n - 1)[i]]

\* pdoses: one entry per site, inserted in the order p, or no entry at all
Pdoses(n, d) ==
    {[k \in 1..n |-> [val |-> List(d[p[k]]), key |-> Site(p[k])]] : p \in Perms(n)} \cup {<<>>}

\* <<structure, total_dos, pdoses>>
CompleteInputs ==
    UNION {UNION {{<<StructureOf(n), PhononDos(List(CompleteFreqs), List(t)), pd>> :
                       t \in {SumDens(d, n), OtherTotal}, pd \in Pdoses(n, d)} :
                  d \in [1..n -> SiteDens]} : n \in 0..MaxSites}

\* SpecComplete: one CompletePhononDos, decomposed and serialized in any order
InitComplete ==
    \E x \in CompleteInputs :
        /\ heap = CompletePhononDos_init(<<>>, x[1], x[2], x[3]).heap
        /\ ret = NoCall

NextComplete ==
    \/ \E k \in 1..(MaxSites + 1) : CallGetSiteDos(Site(k))
    \/ CallGetElementDos
    \/ CallAsDict
    \/ CallFromDict
    \/ CallPhononDosAsDict
    \/ CallPhononDosFromDict
    \/ \E r \in ReturnedArrays, k \in 1..Len(CompleteFreqs) : SetItem(r, k)

SpecComplete == InitComplete /\ [][NextComplete]_vars

\* ---------------------------------------------------------- energy models
\* a number get_energy returns: num / den, a Python int or float
NumInt(n) == [den |-> 1, num |-> n, type |-> "int"]
Frac(num, den) == [den |-> den, num |-> num, type |-> "float"]
\* energy += term, term a float
FracAdd(a, b) == [den |-> a.den * b.den, num |-> a.num * b.den + b.num * a.den, type |-> "float"]
FracEq(a, b) == a.num * b.den = b.num * a.den
FracLess(a, b) == a.num * b.den < b.num * a.den

\* species: "spin" is an attribute some species carry
WithSpin(symbol, spin) == [symbol |-> symbol, spin |-> spin, attrs |-> {"spin"}]
NoSpin(symbol) == [symbol |-> symbol, spin |-> 0, attrs |-> {}]

\* tolerances, in units of 0.01 and of degrees
SymprecDefault == 10
AngleToleranceDefault == 5
Symprecs == {SymprecDefault, 1}
AngleTolerances == {AngleToleranceDefault}
Tolerances == Symprecs \X AngleTolerances
Couplings == {1, -2}
Radii == {1, 2}

\* the structures get_energy is called on.  sites: the species of each site; bonds:
\* the pairs of sites (periodic images included) and their distances, from which the
\* neighbour query answers; spacegroup: what symmetry detection finds at each
\* <<symprec, angle_tolerance>>; total_energy: the converged electrostatic sum;
\* fails: the collaborators that fail on the structure
EnergyStructs ==
    << [fails |-> {}, sites |-> <<>>, bonds |-> <<>>, total_energy |-> 0,
        spacegroup |-> [x \in Tolerances |-> 1]],
       [fails |-> {},
        sites |-> <<WithSpin("Fe", 1), WithSpin("Fe", -1), NoSpin("O"), NoSpin("O")>>,
        bonds |-> <<[a |-> 1, b |-> 2, dist |-> 2], [a |-> 1, b |-> 3, dist |-> 1],
                    [a |-> 2, b |-> 4, dist |-> 1], [a |-> 3, b |-> 4, dist |-> 2]>>, total_energy |-> -40,
        spacegroup |-> [x \in Tolerances |-> IF x[1] = SymprecDefault THEN 225 ELSE 2]],
       [fails |-> {},
        sites |-> <<NoSpin("O"), NoSpin("O")>>,
        bonds |-> <<[a |-> 1, b |-> 2, dist |-> 1]>>, total_energy |-> 3,
        spacegroup |-> [x \in Tolerances |-> 139]],
       [fails |-> {},
        sites |-> <<WithSpin("Fe", 2), WithSpin("Mn", 1)>>,
        bonds |-> <<[a |-> 1, b |-> 2, dist |-> 1], [a |-> 1, b |-> 2, dist |-> 2]>>, total_energy |-> -7,
        spacegroup |-> [x \in Tolerances |-> IF x[1] = SymprecDefault THEN 221 ELSE 123]] >>

\* len(structure)
len(structure) == Len(structure.sites)

\* SpacegroupAnalyzer(structure, symprec, angle_tolerance).get_space_group_number()
SymmetryUndetermined == [tag |-> "raise", exc |-> "SymmetryUndeterminedError", msg |-> "symmetry detection failed"]
get_space_group_number(structure, symprec, angle_tolerance) ==
    IF "SpacegroupAnalyzer" \in structure.fails THEN SymmetryUndetermined
    ELSE Return(structure.spacegroup[<<symprec, angle_tolerance>>])

\* a keyword left to the default None, or a float given by hand
None == [v |-> 0, type |-> "NoneType"]
Float(n) == [v |-> n, type |-> "float"]
\* acc_factor=8.0
AccFactorDefault == 8

\* EwaldSummation(structure, real_space_cut, recip_space_cut, eta, acc_factor).total_energy:
\* the sum of the structure in units of 0.01; cutoffs or a screening parameter given
\* by hand, or another accuracy, move where the sums are cut and with it the value
EwaldDiverged == [tag |-> "raise", exc |-> "ValueError", msg |-> "Ewald summation diverged"]
EwaldSummation_total_energy(structure, real_space_cut, recip_space_cut, eta, acc_factor) ==
    IF "EwaldSummation" \in structure.fails THEN EwaldDiverged
    ELSE Return(Frac(100 * structure.total_energy + real_space_cut.v + 2 * recip_space_cut.v
                         + 3 * eta.v + (acc_factor - AccFactorDefault), 100))

\* the neighbours of site idx within r: one entry per bond of idx, the other end of it
neighbor_entry(structure, idx, bond) ==
    [specie |-> structure.sites[IF bond.a = idx THEN bond.b ELSE bond.a], nn_distance |-> bond.dist]
bonds_within(structure, idx, r) ==
    SelectSeq(structure.bonds, LAMBDA bond : (bond.a = idx \/ bond.b = idx) /\ bond.dist <= r)
entries_of(structure, idx, bonds) ==
    [k \in 1..Len(bonds) |-> neighbor_entry(structure, idx, bonds[k])]
\* structure.get_all_neighbors(r): for each site, its neighbours within r
NeighborQueryFailed == [tag |-> "raise", exc |-> "ValueError", msg |-> "neighbor query failed"]
get_all_neighbors(structure, r) ==
    IF "get_all_neighbors" \in structure.fails THEN NeighborQueryFailed
    ELSE Return([idx \in 1..Len(structure.sites) |-> entries_of(structure, idx, bonds_within(structure, idx, r))])

\* the models: NsitesModel(), SymmetryModel(symprec, angle_tolerance), IsingModel(j, max_radius),
\* EwaldElectrostaticModel(real_space_cut, recip_space_cut, eta, acc_factor)
NsitesModel == [class |-> "NsitesModel"]
EwaldElectrostaticModel(real_space_cut, recip_space_cut, eta, acc_factor) ==
    [real_space_cut |-> real_space_cut, recip_space_cut |-> recip_space_cut,
     eta |-> eta, acc_factor |-> acc_factor, class |-> "EwaldElectrostaticModel"]
SymmetryModel(symprec, angle_tolerance) ==
    [symprec |-> symprec, angle_tolerance |-> angle_tolerance, class |-> "SymmetryModel"]
IsingModel(j, max_radius) == [j |-> j, class |-> "IsingModel", max_radius |-> max_radius]

\* mutant of NsitesModel_get_energy: the species are counted, not the sites
NsitesModel_get_energy_species(self, structure) ==
    Return(NumInt(Cardinality({structure.sites[k].symbol : k \in 1..Len(structure.sites)})))

NsitesModel_get_energy(self, structure) == Return(NumInt(len(structure)))

\* return -spg_analyzer.get_space_group_number()
negated(n) == IF n.tag = "raise" THEN n ELSE Return(NumInt(-n.val))

\* mutant of SymmetryModel_get_energy: the default tolerances are used
SymmetryModel_get_energy_defaults(self, structure) ==
    negated(get_space_group_number(structure, SymprecDefault, AngleToleranceDefault))

SymmetryModel_get_energy(self, structure) ==
    negated(get_space_group_number(structure, self.symprec, self.angle_tolerance))

\* mutant of getattr_spin: the default is 1
getattr_spin_one(specie) == IF "spin" \in specie.attrs THEN specie.spin ELSE 1

\* getattr(specie, "spin", 0)
getattr_spin(specie) == IF "spin" \in specie.attrs THEN specie.spin ELSE 0

\* mutant of pair_term: the decay is r instead of r^2
pair_term_linear(j, s1, nn) == Frac(j * s1 * getattr_spin(nn.specie), nn.nn_distance)

\* self.j * s1 * getattr(nn.specie, "spin", 0) / (nn.nn_distance**2)
pair_term(j, s1, nn) == Frac(j * s1 * getattr_spin(nn.specie), nn.nn_distance * nn.nn_distance)

\* for nn in nns: energy += ...
RECURSIVE for_nn(_, _, _, _)
for_nn(j, s1, nns, energy) ==
    IF nns = <<>> THEN energy
    ELSE for_nn(j, s1, Tail(nns), FracAdd(energy, pair_term(j, s1, Head(nns))))

\* for idx, nns in enumerate(all_nn): s1 = getattr(structure[idx].specie, "spin", 0) ...
RECURSIVE for_idx(_, _, _, _, _)
for_idx(self, structure, all_nn, idx, energy) ==
    IF idx > Len(all_nn) THEN energy
    ELSE for_idx(self, structure, all_nn, idx + 1,
                 for_nn(self.j, getattr_spin(structure.sites[idx]), all_nn[idx], energy))

\* energy = 0, the two loops, return energy
IsingModel_sum(self, structure, all_nn) ==
    IF all_nn.tag = "raise" THEN all_nn
    ELSE Return(for_idx(self, structure, all_nn.val, 1, NumInt(0)))
IsingModel_get_energy(self, structure) ==
    IsingModel_sum(self, structure, get_all_neighbors(structure, self.max_radius))

\* mutant of EwaldElectrostaticModel_get_energy: a failed summation counts as no energy
EwaldElectrostaticModel_get_energy_caught(self, structure) ==
    IF EwaldSummation_total_energy(structure, self.real_space_cut, self.recip_space_cut,
                                   self.eta, self.acc_factor).tag = "raise"
    THEN Return(Frac(0, 1))
    ELSE EwaldSummation_total_energy(structure, self.real_space_cut, self.recip_space_cut,
                                     self.eta, self.acc_factor)

\* e = EwaldSummation(structure, ...); return e.total_energy
EwaldElectrostaticModel_get_energy(self, structure) ==
    EwaldSummation_total_energy(structure, self.real_space_cut, self.recip_space_cut,
                                self.eta, self.acc_factor)

\* model.get_energy(structure), by the class of the model
get_energy(self, structure) ==
    CASE self.class = "NsitesModel" -> NsitesModel_get_energy(self, structure)
      [] self.class = "EwaldElectrostaticModel" -> EwaldElectrostaticModel_get_energy(self, structure)
      [] self.class = "SymmetryModel" -> SymmetryModel_get_energy(self, structure)
      [] self.class = "IsingModel" -> IsingModel_get_energy(self, structure)

\* mutant of get_energy_call: the Ising model remembers the size of the last structure
get_energy_call_memo(self, structure) ==
    [self |-> IF self.class = "IsingModel" THEN [self EXCEPT !.max_radius = len(structure)] ELSE self,
     out |-> get_energy(self, structure)]

\* the call and its frame: get_energy assigns to no attribute of the model
get_energy_call(self, structure) == [self |-> self, out |-> get_energy(self, structure)]

\* ------------------------------------------- energy models: construction
\* keyword arguments and init_args are dicts: sequences of [key, val] items
item(key, val) == [val |-> val, key |-> key]
keys(items) == [k \in 1..Len(items) |-> items[k].key]

\* the parameters of each __init__ after self; NsitesModel defines none
parameters(cls) ==
    CASE cls = "EwaldElectrostaticModel" -> <<"real_space_cut", "recip_space_cut", "eta", "acc_factor">>
      [] cls = "SymmetryModel" -> <<"symprec", "angle_tolerance">>
      [] cls = "IsingModel" -> <<"j", "max_radius">>
      [] cls = "NsitesModel" -> <<>>
\* the parameters without a default
required(cls) == IF cls = "IsingModel" THEN {"j", "max_radius"} ELSE {}

UnexpectedKeyword == [tag |-> "raise", exc |-> "TypeError", msg |-> "unexpected keyword argument"]
MissingArgument == [tag |-> "raise", exc |-> "TypeError", msg |-> "missing required argument"]

\* the value a parameter is bound to: the keyword given, else the default
kwarg(kwargs, name, default) == IF dict_has(kwargs, name) THEN dict_get(kwargs, name) ELSE default

\* the __init__ bodies on the bound parameters
init(cls, kwargs) ==
    CASE cls = "EwaldElectrostaticModel" ->
             EwaldElectrostaticModel(kwarg(kwargs, "real_space_cut", None), kwarg(kwargs, "recip_space_cut", None),
                                     kwarg(kwargs, "eta", None), kwarg(kwargs, "acc_factor", AccFactorDefault))
      [] cls = "SymmetryModel" ->
             SymmetryModel(kwarg(kwargs, "symprec", SymprecDefault),
                           kwarg(kwargs, "angle_tolerance", AngleToleranceDefault))
      [] cls = "IsingModel" -> IsingModel(kwarg(kwargs, "j", 0), kwarg(kwargs, "max_radius", 0))
      [] cls = "NsitesModel" -> NsitesModel

\* cls(**kwargs)
new(cls, kwargs) ==
    IF \E k \in 1..Len(kwargs) : kwargs[k].key \notin Range(parameters(cls)) THEN UnexpectedKeyword
    ELSE IF \E name \in required(cls) : ~dict_has(kwargs, name) THEN MissingArgument
    ELSE Return(init(cls, kwargs))

\* ------------------------------------------ energy models: serialization
\* {"version": __version__, "@module": ..., "@class": ..., "init_args": {...}}
MSONable_dict(self, init_args) ==
    [class |-> self.class, init_args |-> init_args, version |-> "0.1",
     module |-> "pymatgen.analysis.energy_models"]

EwaldElectrostaticModel_as_dict(self) ==
    MSONable_dict(self, <<item("real_space_cut", self.real_space_cut),
                          item("recip_space_cut", self.recip_space_cut),
                          item("eta", self.eta), item("acc_factor", self.acc_factor)>>)

SymmetryModel_as_dict(self) ==
    MSONable_dict(self, <<item("symprec", self.symprec), item("angle_tolerance", self.angle_tolerance)>>)

\* mutant of IsingModel_as_dict: the radius is written under the name the docstring uses
IsingModel_as_dict_radius(self) ==
    MSONable_dict(self, <<item("j", self.j), item("radius", self.max_radius)>>)

IsingModel_as_dict(self) ==
    MSONable_dict(self, <<item("j", self.j), item("max_radius", self.max_radius)>>)

NsitesModel_as_dict(self) == MSONable_dict(self, <<>>)

\* model.as_dict(), by the class of the model
EnergyModel_as_dict(self) ==
    CASE self.class = "EwaldElectrostaticModel" -> EwaldElectrostaticModel_as_dict(self)
      [] self.class = "SymmetryModel" -> SymmetryModel_as_dict(self)
      [] self.class = "IsingModel" -> IsingModel_as_dict(self)
      [] self.class = "NsitesModel" -> NsitesModel_as_dict(self)

\* cls.from_dict(dct): return cls(**dct["init_args"])
EnergyModel_from_dict(cls, dct) == new(cls, dct.init_args)

\* --------------------------------------------- energy models: actions
\* a caller constructs a model and keeps it
NewNsitesModel ==
    /\ Len(heap) < MaxObjs
    /\ heap' = Append(heap, NsitesModel)
    /\ ret' = Called("__init__", Len(heap) + 1, 0, 0, 0, Return(NumInt(Len(heap) + 1)))

\* SymmetryModel(**kwargs), ret.other the keywords the caller gave
NewSymmetryModel(kwargs) ==
    /\ Len(heap) < MaxObjs
    /\ heap' = Append(heap, new("SymmetryModel", kwargs).val)
    /\ ret' = Called("__init__", Len(heap) + 1, kwargs, 0, 0, Return(NumInt(Len(heap) + 1)))

\* EwaldElectrostaticModel(**kwargs), ret.other the keywords the caller gave
NewEwaldElectrostaticModel(kwargs) ==
    /\ Len(heap) < MaxObjs
    /\ heap' = Append(heap, new("EwaldElectrostaticModel", kwargs).val)
    /\ ret' = Called("__init__", Len(heap) + 1, kwargs, 0, 0, Return(NumInt(Len(heap) + 1)))

NewIsingModel(j, max_radius) ==
    /\ Len(heap) < MaxObjs
    /\ heap' = Append(heap, IsingModel(j, max_radius))
    /\ ret' = Called("__init__", Len(heap) + 1, 0, 0, 0, Return(NumInt(Len(heap) + 1)))

\* model i is left as the call r left it; the caller gets the outcome
ApplyEnergy(i, r, other, s) ==
    /\ heap' = [heap EXCEPT ![i] = r.self]
    /\ ret' = Called("get_energy", i, other, 0, s, r.out)

\* heap[i].get_energy(EnergyStructs[s])
CallGetEnergy(i, s) == ApplyEnergy(i, get_energy_call(heap[i], EnergyStructs[s]), 0, s)

\* heap[i].as_dict()
CallModelAsDict(i) ==
    /\ ret' = Called("as_dict", i, 0, 0, 0, Return(EnergyModel_as_dict(heap[i])))
    /\ UNCHANGED heap

\* cls.from_dict(d) on the dict d the last call returned; ret.other is cls
CallModelFromDict(cls) ==
    /\ ret.op = "as_dict"
    /\ ret' = Called("from_dict", ret.self, cls, 0, 0, EnergyModel_from_dict(cls, ret.out.val))
    /\ UNCHANGED heap

\* the keywords callers construct the models with
SymmetryKwargs ==
    {<<>>, <<item("symprec", 1)>>, <<item("angle_tolerance", AngleToleranceDefault)>>,
     <<item("symprec", SymprecDefault), item("angle_tolerance", AngleToleranceDefault)>>}
EwaldKwargs ==
    {<<>>, <<item("acc_factor", 12)>>, <<item("real_space_cut", Float(5)), item("eta", Float(1))>>,
     <<item("real_space_cut", Float(5)), item("recip_space_cut", Float(3)), item("eta", None),
       item("acc_factor", AccFactorDefault)>>}
Classes == {"EwaldElectrostaticModel", "SymmetryModel", "IsingModel", "NsitesModel"}

\* SpecEnergy: callers construct energy models and score the structures with them
InitEnergy == heap = <<>> /\ ret = NoCall

NextEnergy ==
    \/ NewNsitesModel
    \/ \E kwargs \in SymmetryKwargs : NewSymmetryModel(kwargs)
    \/ \E j \in Couplings, r \in Radii : NewIsingModel(j, r)
    \/ \E kwargs \in EwaldKwargs : NewEwaldElectrostaticModel(kwargs)
    \/ \E i \in 1..Len(heap), s \in 1..Len(EnergyStructs) : CallGetEnergy(i, s)
    \/ \E i \in 1..Len(heap) : CallModelAsDict(i)
    \/ \E cls \in Classes : CallModelFromDict(cls)

SpecEnergy == InitEnergy /\ [][NextEnergy]_vars

\* SpecFaults: the models score structures on which collaborators fail
Collaborators == {"SpacegroupAnalyzer", "EwaldSummation", "get_all_neighbors"}
failing(structure, fails) == [structure EXCEPT !.fails = fails]

\* heap[i].get_energy(structure) while the collaborators in fails fail; ret.other is fails
CallGetEnergyFailing(i, s, fails) ==
    ApplyEnergy(i, get_energy_call(heap[i], failing(EnergyStructs[s], fails)), fails, s)

NextFaults ==
    \/ NewNsitesModel
    \/ \E kwargs \in SymmetryKwargs : NewSymmetryModel(kwargs)
    \/ \E j \in Couplings, r \in Radii : NewIsingModel(j, r)
    \/ \E kwargs \in EwaldKwargs : NewEwaldElectrostaticModel(kwargs)
    \/ \E i \in 1..Len(heap), s \in 1..Len(EnergyStructs), fails \in SUBSET Collaborators :
           CallGetEnergyFailing(i, s, fails)

SpecFaults == InitEnergy /\ [][NextFaults]_vars

\* ------------------------------------------------ threads on one instance
\* In SpecThreads heap[1] is the one PhononDos all threads share and ret[k] is the
\* call thread k is in: its local variables and where it stands.  A thread may be
\* preempted between any two accesses to the shared instance: between finding a lazy
\* property missing and running its body, and between the body and the store.
\* threads that call into the instance at the same time
NThreads == 2
LazyNames == {"ind_zero_freq", "_positive_frequencies", "_positive_densities"}

\* the frame of a call of op(t): target is the lazy property being read, ind, freqs
\* and dens are locals, stores counts the stores the thread made on the instance
Frame(op, t) ==
    [op |-> op, t |-> t, out |-> [tag |-> "none"], ind |-> 0, freqs |-> <<>>, dens |-> <<>>, target |-> "none",
     stage |-> "call", stores |-> 0]

\* the call ends with outcome out
done(th, out) == [th EXCEPT !.stage = "done", !.out = out]

\* mutant of lazy_store: a store on a property that is already there removes it
lazy_store_toggle(self, name, value) ==
    IF self[name].set THEN [self EXCEPT ![name] = Unset(value)] ELSE [self EXCEPT ![name] = Cached(value)]

\* lazy_property: the value the body returned is stored on the instance
lazy_store(self, name, value) == [self EXCEPT ![name] = Cached(value)]

\* the body of a query on the arrays freqs and dens the thread read
query_body(op, self, t) ==
    CASE op = "cv" -> cv(self, t, 0).out
      [] op = "entropy" -> entropy(self, t, 0).out
      [] op = "internal_energy" -> internal_energy(self, t, 0).out
      [] op = "helmholtz_free_energy" -> helmholtz_free_energy(self, t, 0).out
      [] op = "zero_point_energy" -> zero_point_energy(self, 0).out
query_on(op, self, t, freqs, dens) ==
    query_body(op, [self EXCEPT !._positive_frequencies = Cached(freqs), !._positive_densities = Cached(dens)], t)

\* the read of lazy property name gave value: the thread's call goes on from there
read_done(th, self, name, value) ==
    IF th.op = name THEN done(th, Return(value))
    ELSE IF name = "_positive_frequencies"
         THEN [th EXCEPT !.freqs = value, !.target = "_positive_densities", !.stage = "load"]
    ELSE done(th, query_on(th.op, self, th.t, th.freqs, value))

\* the body of ind_zero_freq ended in r: the error ends the call, the index is kept
\* to be stored (stage next)
ran_ind_zero_freq(th, r, next) ==
    IF r.tag = "raise" THEN done(th, r) ELSE [th EXCEPT !.ind = r.val, !.stage = next]

\* the value of the body of the lazy property name, with self.ind_zero_freq read as ind
body_value(self, name, ind) ==
    CASE name = "ind_zero_freq" -> ind
      [] name = "_positive_frequencies" -> slice_from(self.frequencies, ind)
      [] name = "_positive_densities" -> slice_from(self.densities, ind)

Step(k, self, th) ==
    /\ heap' = [heap EXCEPT ![1] = self]
    /\ ret' = [ret EXCEPT ![k] = th]

\* the call starts: cv and entropy return 0 at t == 0, every other query reads
\* self._positive_frequencies first
Enter(k) ==
    /\ ret[k].stage = "call"
    /\ Step(k, heap[1],
            IF ret[k].op \in {"cv", "entropy"} /\ ret[k].t = 0 THEN done(ret[k], Return(IntVal(0)))
            ELSE [ret[k] EXCEPT !.stage = "load",
                                !.target = IF ret[k].op \in LazyNames THEN ret[k].op ELSE "_positive_frequencies"])

\* attribute lookup of the target: the stored value if there is one, else the body of
\* the property starts (the body of ind_zero_freq touches no lazy property and runs whole)
Load(k) ==
    /\ ret[k].stage = "load"
    /\ Step(k, heap[1],
            IF heap[1][ret[k].target].set
            THEN read_done(ret[k], heap[1], ret[k].target, heap[1][ret[k].target].v)
            ELSE IF ret[k].target = "ind_zero_freq"
                 THEN ran_ind_zero_freq(ret[k], ind_zero_freq(heap[1]), "store")
            ELSE [ret[k] EXCEPT !.stage = "load_ind"])

\* inside the body of _positive_frequencies / _positive_densities: self.ind_zero_freq
LoadInd(k) ==
    /\ ret[k].stage = "load_ind"
    /\ Step(k, heap[1],
            IF heap[1].ind_zero_freq.set
            THEN [ret[k] EXCEPT !.ind = heap[1].ind_zero_freq.v, !.stage = "store"]
            ELSE ran_ind_zero_freq(ret[k], ind_zero_freq(heap[1]), "store_ind"))

\* the index the nested read computed is stored, then the slice is taken
StoreInd(k) ==
    /\ ret[k].stage = "store_ind"
    /\ Step(k, lazy_store(heap[1], "ind_zero_freq", ret[k].ind),
            [ret[k] EXCEPT !.stage = "store", !.stores = @ + 1])

\* the value of the target's body is stored and handed to the reader
Store(k) ==
    /\ ret[k].stage = "store"
    /\ Step(k, lazy_store(heap[1], ret[k].target, body_value(heap[1], ret[k].target, ret[k].ind)),
            read_done([ret[k] EXCEPT !.stores = @ + 1], heap[1], ret[k].target,
                      body_value(heap[1], ret[k].target, ret[k].ind)))

\* the instances the threads share and the calls they make
ThreadInputs ==
    {<<ScenarioFreqs, ScenarioDens>>, <<(<<-1>>), (<<2>>)>>, <<(<<2, 1, 0>>), (<<0, 2, 2>>)>>}
ThreadCalls ==
    {<<"ind_zero_freq", 0>>, <<"_positive_frequencies", 0>>, <<"_positive_densities", 0>>,
     <<"cv", 0>>, <<"cv", 300>>, <<"internal_energy", 0>>}

InitThreads ==
    \E x \in ThreadInputs, c \in [1..NThreads -> ThreadCalls] :
        /\ heap = <<PhononDos(x[1], x[2])>>
        /\ ret = [k \in 1..NThreads |-> Frame(c[k][1], c[k][2])]

NextThreads ==
    \/ \E k \in 1..NThreads : Enter(k)
    \/ \E k \in 1..NThreads : Load(k)
    \/ \E k \in 1..NThreads : LoadInd(k)
    \/ \E k \in 1..NThreads : StoreInd(k)
    \/ \E k \in 1..NThreads : Store(k)

SpecThreads == InitThreads /\ [][NextThreads]_vars

\* ------------------------------------------ one instance, every operation
\* In SpecPublic cell 1 of the heap is a PhononDos or a CompletePhononDos, its arrays
\* are in the cells after it, and callers run every public operation on it.
IsComplete(h) == "pdos" \in DOMAIN h[1]

\* PhononDos(frequencies, densities) constructed into cell 1
PhononDos_new(r) == [r.heap EXCEPT ![1] = r.val]

\* the cells the instance owns; what earlier calls returned has been dropped
Owned(h) == SubSeq(h, 1, 3 + (IF IsComplete(h) THEN Len(h[1].pdos) ELSE 0))

\* self as the methods of PhononDos see it: the attributes with the arrays read out
Deref(h) ==
    [frequencies |-> h[h[1].frequencies.at].data, densities |-> h[h[1].densities.at].data,
     ind_zero_freq |-> h[1].ind_zero_freq, _positive_frequencies |-> h[1]._positive_frequencies,
     _positive_densities |-> h[1]._positive_densities]

\* the heap once a method has left the instance as self
Stored(h, self) ==
    [h EXCEPT ![1].ind_zero_freq = self.ind_zero_freq,
              ![1]._positive_frequencies = self._positive_frequencies,
              ![1]._positive_densities = self._positive_densities,
              ![h[1].frequencies.at].data = self.frequencies,
              ![h[1].densities.at].data = self.densities]

ApplyPublic(r, op, other, t, s) ==
    /\ heap' = Stored(Owned(heap), r.self)
    /\ ret' = Called(op, 1, other, t, s, r.out)

PublicCv(t, s) == ApplyPublic(cv(Deref(heap), t, s), "cv", 0, t, s)

PublicEntropy(t, s) == ApplyPublic(entropy(Deref(heap), t, s), "entropy", 0, t, s)

PublicInternalEnergy(t, s) == ApplyPublic(internal_energy(Deref(heap), t, s), "internal_energy", 0, t, s)

PublicHelmholtzFreeEnergy(t, s) ==
    ApplyPublic(helmholtz_free_energy(Deref(heap), t, s), "helmholtz_free_energy", 0, t, s)

PublicZeroPointEnergy(s) == ApplyPublic(zero_point_energy(Deref(heap), s), "zero_point_energy", 0, 0, s)

PublicGetSmearedDensities(sigma, fails) ==
    ApplyPublic(get_smeared_densities(Deref(heap), sigma, fails), "get_smeared_densities", sigma, 0, 0)

PublicGetInterpolatedValue(frequency, fails) ==
    ApplyPublic(get_interpolated_value(Deref(heap), frequency, fails), "get_interpolated_value", frequency, 0, 0)

PublicRepr ==
    ApplyPublic(__repr__(IF IsComplete(heap) THEN "CompletePhononDos" ELSE "PhononDos", Deref(heap)),
                "__repr__", 0, 0, 0)

PublicStr == ApplyPublic(__str__(Deref(heap)), "__str__", 0, 0, 0)

\* the right operands of +: PublicOthers[o], or the instance itself (o = 0)
PublicOthers == <<PhononDos(<<0, 1>>, <<2, 0>>), PhononDos(<<-1, 0, 1>>, <<2, 2, 2>>), PhononDos(<<1>>, <<2>>)>>
Operand(h, o) == IF o = 0 THEN Deref(h) ELSE PublicOthers[o]

\* instance + other: the operands stay where they are, the sum is handed to the caller
PublicAdd(o) ==
    /\ heap' = Owned(heap)
    /\ ret' = Called("__add__", 1, o, 0, 0, __add__(Deref(heap), Operand(heap, o)))

PublicAsDict ==
    IF IsComplete(heap) THEN ApplyComplete(CompletePhononDos_as_dict(Owned(heap), heap[1]), "as_dict", NoSite)
    ELSE /\ heap' = Owned(heap)
         /\ ret' = Called("as_dict", 1, NoSite, 0, 0, Return(PhononDos_as_dict(heap, heap[1])))

PublicGetSiteDos(site) ==
    /\ IsComplete(heap)
    /\ ApplyComplete(get_site_dos(Owned(heap), heap[1], site), "get_site_dos", site)

PublicGetElementDos ==
    /\ IsComplete(heap)
    /\ ApplyComplete(get_element_dos(Owned(heap), heap[1]), "get_element_dos", NoSite)

\* the instances: <<frequencies, densities>>, and <<structure, total_dos, pdoses>>
PlainInputs ==
    {<<ScenarioFreqs, ScenarioDens>>, <<(<<-1>>), (<<2>>)>>, <<(<<2, 1, 0>>), (<<0, 2, 2>>)>>,
     <<(<<>>), (<<>>)>>, <<(<<0, 1>>), (<<2, 0>>)>>}
AggregateAxes == {<<0, 1>>, <<-1, 0>>, <<-1, -1>>}
AggregateInputs ==
    {<<StructureOf(n), PhononDos(List(f), List(SumDens(d, n))), [k \in 1..n |-> [val |-> List(d[k]), key |-> Site(k)]]>> :
         n \in {2, 3}, f \in AggregateAxes, d \in {<<(<<0, 2>>), (<<2, 2>>), (<<2, 0>>)>>, <<(<<2, 2>>), (<<2, 2>>), (<<0, 2>>)>>}}
Frequencies == {-1, 0, 1, 5}

\* SpecPublic: one instance of either class, used through every public operation
InitPublic ==
    /\ ret = NoCall
    /\ \/ \E x \in PlainInputs : heap = PhononDos_new(PhononDos_init(<<Unallocated>>, List(x[1]), List(x[2])))
       \/ \E x \in AggregateInputs : heap = CompletePhononDos_init(<<>>, x[1], x[2], x[3]).heap

NextPublic ==
    \/ \E t \in Temps, s \in StructArgs : PublicCv(t, s)
    \/ \E t \in Temps, s \in StructArgs : PublicEntropy(t, s)
    \/ \E t \in Temps, s \in StructArgs : PublicInternalEnergy(t, s)
    \/ \E t \in Temps, s \in StructArgs : PublicHelmholtzFreeEnergy(t, s)
    \/ \E s \in StructArgs : PublicZeroPointEnergy(s)
    \/ \E sigma \in Sigmas, fails \in BOOLEAN : PublicGetSmearedDensities(sigma, fails)
    \/ \E frequency \in Frequencies, fails \in BOOLEAN : PublicGetInterpolatedValue(frequency, fails)
    \/ PublicRepr
    \/ PublicStr
    \/ \E o \in 0..Len(PublicOthers) : PublicAdd(o)
    \/ PublicAsDict
    \/ \E k \in 1..(MaxSites + 1) : PublicGetSiteDos(Site(k))
    \/ PublicGetElementDos

SpecPublic == InitPublic /\ [][NextPublic]_vars

\* ------------------------------------------------------------ freq_units
\* A str is a sequence of one-character strings.
Whitespace == {" ", "\t", "\n"}
UpperCase == <<"T", "H", "Z", "E", "V", "M", "A", "C">>
LowerCase == <<"t", "h", "z", "e", "v", "m", "a", "c">>

\* str.lower()
lower_char(c) ==
    IF \E k \in 1..Len(UpperCase) : UpperCase[k] = c
    THEN LowerCase[CHOOSE k \in 1..Len(UpperCase) : UpperCase[k] = c]
    ELSE c
lower(str) == [k \in 1..Len(str) |-> lower_char(str[k])]

\* str.strip(): leading, then trailing whitespace goes
RECURSIVE lstrip(_)
lstrip(str) == IF Len(str) > 0 /\ Head(str) \in Whitespace THEN lstrip(Tail(str)) ELSE str
RECURSIVE rstrip(_)
rstrip(str) ==
    IF Len(str) > 0 /\ str[Len(str)] \in Whitespace THEN rstrip(SubSeq(str, 1, Len(str) - 1)) ELSE str
strip(str) == rstrip(lstrip(str))

\* FreqUnits(factor, label); a factor is const * 10^scale (tera 12, / milli 3, centi -2)
FreqUnits(const, scale, label) == [label |-> label, factor |-> [const |-> const, scale |-> scale]]

\* dct: the six entries, in the order they are written
dct ==
    << [val |-> FreqUnits("1", 0, "THz"), key |-> <<"t", "h", "z">>],
       [val |-> FreqUnits("hertz-electron volt relationship", 12, "eV"), key |-> <<"e", "v">>],
       [val |-> FreqUnits("hertz-electron volt relationship", 15, "meV"), key |-> <<"m", "e", "v">>],
       [val |-> FreqUnits("hertz-hartree relationship", 12, "Ha"), key |-> <<"h", "a">>],
       [val |-> FreqUnits("hertz-inverse meter relationship", 10, "cm^{-1}"), key |-> <<"c", "m", "-", "1">>],
       [val |-> FreqUnits("hertz-inverse meter relationship", 10, "cm^{-1}"), key |-> <<"c", "m", "^", "-", "1">>] >>

\* raise KeyError(f"Value for units `{units}` unknown ...")
UnknownUnits(units) == [tag |-> "raise", exc |-> "KeyError", msg |-> units]

\* mutant of lookup: an unknown key gives the THz entry
lookup_default(units, key) == IF dict_has(dct, key) THEN Return(dict_get(dct, key)) ELSE Return(dct[1].val)

\* try: return dct[key]  except KeyError: raise KeyError(...)
lookup(units, key) == IF dict_has(dct, key) THEN Return(dict_get(dct, key)) ELSE UnknownUnits(units)

freq_units(units) == lookup(units, strip(lower(units)))

\* the caller asks for the conversion entry of a token; ret.other is the token
CallFreqUnits(units) ==
    /\ ret' = Called("freq_units", 0, units, 0, 0, freq_units(units))
    /\ UNCHANGED heap

\* tokens: a core in some casing, between runs of whitespace
Cores ==
    {dct[k].key : k \in 1..Len(dct)} \cup
    {<<>>, <<"h", "z">>, <<"t", "h", " ", "z">>, <<"c", "m">>, <<"c", "m", "-", "1", "1">>,
     <<"c", "m", "^", "1">>, <<"t", "h", "z", "x">>, <<"x">>, <<"1">>}
upper_char(c) ==
    IF \E k \in 1..Len(LowerCase) : LowerCase[k] = c
    THEN UpperCase[CHOOSE k \in 1..Len(LowerCase) : LowerCase[k] = c]
    ELSE c
Casings(core) ==
    {core, [k \in 1..Len(core) |-> upper_char(core[k])],
     [k \in 1..Len(core) |-> IF k = 1 THEN upper_char(core[k]) ELSE core[k]],
     [k \in 1..Len(core) |-> IF k = Len(core) THEN upper_char(core[k]) ELSE core[k]]}
Pads == {<<>>, <<" ">>, <<"\t">>, <<"\n", " ">>}
Tokens == {l \o c \o r : l \in Pads, r \in Pads, c \in UNION {Casings(core) : core \in Cores}}

\* SpecUnits: callers convert unit tokens
InitUnits == heap = <<>> /\ ret = NoCall

NextUnits == \E units \in Tokens : CallFreqUnits(units)

SpecUnits == InitUnits /\ [][NextUnits]_vars

\* ================================================================ claims
ThermoOps == {"cv", "entropy", "internal_energy", "helmholtz_free_energy", "zero_point_energy"}
HasNonNeg(f) == \E k \in 1..Len(f) : f[k] >= 0
\* 1-based position of the first sample that is >= 0
LeastNonNeg(f) == CHOOSE i \in 1..Len(f) : f[i] >= 0 /\ \A j \in 1..(i - 1) : f[j] < 0
IsZero(v) == QuotEq(v, Quot(Num(0), 1))
\* the instance the last call was made on, as that call left it
Receiver == heap[ret.self]
\* what a query named op returns on instance self
Query(op, self, t, s) ==
    CASE op = "cv" -> cv(self, t, s).out
      [] op = "entropy" -> entropy(self, t, s).out
      [] op = "internal_energy" -> internal_energy(self, t, s).out
      [] op = "helmholtz_free_energy" -> helmholtz_free_energy(self, t, s).out
      [] op = "zero_point_energy" -> zero_point_energy(self, s).out

\* C1: on an instance with a frequency >= 0, for every structure argument, cv(0, s)
\* and entropy(0, s) return 0, and internal_energy(0, s) and helmholtz_free_energy(0, s)
\* end exactly as zero_point_energy(s) does on that instance.
C1_ZeroTemperature ==
    (ret.op \in ThermoOps /\ ret.op # "zero_point_energy" /\ ret.t = 0 /\ HasNonNeg(Receiver.frequencies)) =>
        IF ret.op \in {"cv", "entropy"}
        THEN ret.out.tag = "return" /\ IsZero(ret.out.val.v)
        ELSE ret.out = zero_point_energy(Receiver, ret.structure).out

C1_Witness ==
    /\ ret.op = "internal_energy" /\ ret.t = 0 /\ ret.structure = 1
    /\ ret.out.tag = "return" /\ ret.out.val.v.x.q > 0

\* C2 (as claimed): on an instance with no frequency >= 0 every thermodynamic query,
\* at T = 0 too, ends in the "no positive frequencies" error and returns nothing.
C2_AllQueriesRaise ==
    (ret.op \in ThermoOps /\ ~HasNonNeg(Receiver.frequencies)) => ret.out = NoPositiveFrequencies

\* C6: with ascending frequencies, ind_zero_freq is the least index whose frequency
\* is >= 0 and _positive_frequencies / _positive_densities are the suffixes from it;
\* without such an index each access raises "No positive frequencies found".  The
\* values kept on the instance are those values.
C6_ZeroFreqIndex ==
    \A i \in 1..Len(heap) :
        LET f == heap[i].frequencies
            d == heap[i].densities
        IN  Ascending(f) =>
            /\ heap[i].ind_zero_freq.set =>
                   HasNonNeg(f) /\ heap[i].ind_zero_freq.v = LeastNonNeg(f) - 1
            /\ heap[i]._positive_frequencies.set =>
                   HasNonNeg(f) /\ heap[i]._positive_frequencies.v = SubSeq(f, LeastNonNeg(f), Len(f))
            /\ heap[i]._positive_densities.set =>
                   HasNonNeg(f) /\ heap[i]._positive_densities.v = SubSeq(d, LeastNonNeg(f), Len(d))
            /\ (ret.self = i /\ ret.op = "ind_zero_freq") =>
                   IF HasNonNeg(f) THEN ret.out = Return(LeastNonNeg(f) - 1)
                   ELSE ret.out = NoPositiveFrequencies
            /\ (ret.self = i /\ ret.op = "_positive_frequencies") =>
                   IF HasNonNeg(f) THEN ret.out = Return(SubSeq(f, LeastNonNeg(f), Len(f)))
                   ELSE ret.out = NoPositiveFrequencies
            /\ (ret.self = i /\ ret.op = "_positive_densities") =>
                   IF HasNonNeg(f) THEN ret.out = Return(SubSeq(d, LeastNonNeg(f), Len(d)))
                   ELSE ret.out = NoPositiveFrequencies

C6_Witness ==
    /\ ret.op = "_positive_densities" /\ ret.out.tag = "return"
    /\ Receiver.ind_zero_freq.v = 1 /\ Len(ret.out.val) = 2
    /\ Receiver.frequencies[1] < 0 /\ Receiver.frequencies[2] = 0

\* C7 (as claimed): no sample with a frequency <= 0 is in the sub-range the
\* quantities integrate.
C7_OnlyPositiveIntegrated ==
    \A i \in 1..Len(heap) :
        heap[i]._positive_frequencies.set =>
            \A k \in 1..Len(heap[i]._positive_frequencies.v) : heap[i]._positive_frequencies.v[k] > 0

\* SUM over from <= k < Len(f) of (f[k+1] - f[k]) * (f[k] d[k] + f[k+1] d[k+1])
RECURSIVE TrapezoidSum(_, _, _)
TrapezoidSum(f, d, from) ==
    IF from >= Len(f) THEN 0
    ELSE (f[from + 1] - f[from]) * (f[from] * d[from] + f[from + 1] * d[from + 1])
             + TrapezoidSum(f, d, from + 1)

\* C8: zero_point_energy() without a structure is 1/2 of the trapezoidal integral
\* of f * density over the samples from ind_zero_freq on, in units of
\* THZ_TO_J * Avogadro; earlier samples do not enter.
C8_ZeroPointEnergy ==
    (ret.op = "zero_point_energy" /\ ret.structure = 0 /\ ret.out.tag = "return") =>
        /\ Receiver.ind_zero_freq.set
        /\ ret.out.val.unit = "THZ_TO_J*Avogadro"
        /\ QuotEq(ret.out.val.v,
                  Quot(Num(TrapezoidSum(Receiver.frequencies, Receiver.densities,
                                        Receiver.ind_zero_freq.v + 1)), 4))

C8_Witness ==
    /\ ret.op = "zero_point_energy" /\ ret.structure = 0 /\ ret.out.tag = "return"
    /\ Receiver.frequencies = <<-1, 1, 2>> /\ Receiver.densities = <<2, 0, 2>>

IsScenario == Receiver.frequencies = ScenarioFreqs /\ Receiver.densities = ScenarioDens

C10_PerFormulaUnit ==
    ret.op \in ThermoOps =>
        \A s \in 1..Len(Structs) :
            LET raw == Query(ret.op, Receiver, ret.t, 0)
                per == Query(ret.op, Receiver, ret.t, s)
                got == IF ret.structure = 0 THEN raw ELSE per
            IN  /\ (ret.structure \in {0, s}) => ret.out = got
                /\ raw.tag = per.tag
                /\ raw.tag = "raise" => per = raw
                /\ raw.tag = "return" =>
                       /\ per.val.type = raw.val.type
                       /\ raw.val.type = "float" => per.val.unit = raw.val.unit
                       /\ QuotEq(per.val.v, QuotDiv(raw.val.v, Structs[s].num_atoms, Structs[s].reduced_num_atoms))

C10_Witness ==
    /\ ret.op = "cv" /\ ret.t = 300 /\ ret.structure = 1 /\ ret.out.tag = "return"
    /\ ret.out.val.v.x.cls = "fin" /\ ret.out.val.v.x.w[1] > 0

\* C3: for operands with identical frequency axes, + returns a new instance with
\* that axis and the elementwise sum of the densities, and changes neither operand.
C3_AddSums ==
    [][\A i \in 1..Len(heap), j \in 1..Len(heap) :
           (CallAdd(i, j) /\ heap[i].frequencies = heap[j].frequencies) =>
               /\ ret'.out.tag = "return"
               /\ ret'.out.val.frequencies = heap[i].frequencies
               /\ ret'.out.val.densities =
                      [k \in 1..Len(heap[i].densities) |-> heap[i].densities[k] + heap[j].densities[k]]
               /\ heap' = heap]_vars

C3_Witness ==
    /\ ret.op = "__add__" /\ ret.self # ret.other /\ ret.out.tag = "return"
    /\ heap[ret.self].frequencies = <<0, 1>> /\ heap[ret.other].frequencies = <<0, 1>>
    /\ ret.out.val.densities = <<2, 4>>

DifferSomewhere(f, g) == Len(f) = Len(g) /\ \E k \in 1..Len(f) : f[k] # g[k]

\* C4: for operands of equal length whose axes differ in some element, + raises
\* "Frequencies of both DOS are not compatible!", returns no instance and changes
\* neither operand.
C4_AddRejects ==
    [][\A i \in 1..Len(heap), j \in 1..Len(heap) :
           (CallAdd(i, j) /\ DifferSomewhere(heap[i].frequencies, heap[j].frequencies)) =>
               ret'.out = IncompatibleSpectra /\ heap' = heap]_vars

C4_Witness ==
    /\ ret.op = "__add__" /\ ret.out = IncompatibleSpectra
    /\ DifferSomewhere(heap[ret.self].frequencies, heap[ret.other].frequencies)

\* C5 (as claimed): a + b and b + a both fail or both return instances with equal
\* frequencies and densities, and b.__radd__(x) ends as b.__add__(x) does.
C5_Commutative ==
    /\ ret.op = "__add__" =>
           LET ba == __add__(heap[ret.other], heap[ret.self])
           IN  \/ ret.out.tag = "raise" /\ ba.tag = "raise"
               \/ /\ ret.out.tag = "return" /\ ba.tag = "return"
                  /\ ret.out.val.frequencies = ba.val.frequencies
                  /\ ret.out.val.densities = ba.val.densities
    /\ ret.op = "__radd__" => ret.out = __add__(heap[ret.self], heap[ret.other])

\* ---------------------------------------------- CompletePhononDos claims
\* the aggregate the calls are made on
Aggregate == heap[1]
\* what the aggregate holds, array contents included
AggregateView(h) ==
    [structure |-> h[1].structure, frequencies |-> elements(h, h[1].frequencies),
     densities |-> elements(h, h[1].densities),
     pdos |-> [k \in 1..Len(h[1].pdos) |-> [val |-> elements(h, h[1].pdos[k].val), key |-> h[1].pdos[k].key]]]
SpeciesOf(sites) == {sites[k].specie : k \in 1..Len(sites)}
StoredSites(self) == [k \in 1..Len(self.pdos) |-> self.pdos[k].key]

\* C11: from_dict(as_dict(x)) of a PhononDos x has the frequencies and densities
\* of x; as_dict of a CompletePhononDos lists the pdos entries in the site order of
\* the structure, and from_dict of that dict is a CompletePhononDos with the same
\* frequencies, densities and structure that maps every site to the density
\* sequence x maps it to.
C11_RoundTrip ==
    /\ ret.op = "PhononDos.from_dict" =>
           /\ ret.out.tag = "return"
           /\ elements(heap, ret.out.val.frequencies) = elements(heap, ret.self.frequencies)
           /\ elements(heap, ret.out.val.densities) = elements(heap, ret.self.densities)
    /\ ret.op = "as_dict" =>
           /\ ret.out.tag = "return"
           /\ Len(Aggregate.pdos) > 0 =>
                  /\ Len(ret.out.val.pdos) = Len(Aggregate.structure)
                  /\ \A k \in 1..Len(Aggregate.structure) :
                         ret.out.val.pdos[k].data =
                             elements(heap, dict_get(Aggregate.pdos, Aggregate.structure[k]))
    /\ ret.op = "from_dict" =>
           /\ ret.out.tag = "return"
           /\ heap[ret.out.val.at].type = "CompletePhononDos"
           /\ elements(heap, heap[ret.out.val.at].frequencies) = elements(heap, Aggregate.frequencies)
           /\ elements(heap, heap[ret.out.val.at].densities) = elements(heap, Aggregate.densities)
           /\ heap[ret.out.val.at].structure = Aggregate.structure
           /\ Len(heap[ret.out.val.at].pdos) = Len(Aggregate.pdos)
           /\ \A k \in 1..Len(Aggregate.pdos) :
                  /\ dict_has(heap[ret.out.val.at].pdos, Aggregate.pdos[k].key)
                  /\ elements(heap, dict_get(heap[ret.out.val.at].pdos, Aggregate.pdos[k].key))
                         = elements(heap, Aggregate.pdos[k].val)

C11_Witness ==
    /\ ret.op = "from_dict" /\ ret.out.tag = "return"
    /\ Len(Aggregate.pdos) = 3 /\ Aggregate.pdos[1].key = Aggregate.structure[2]
    /\ elements(heap, Aggregate.pdos[1].val) # elements(heap, Aggregate.pdos[2].val)
    /\ Len(heap[ret.out.val.at].pdos) = 3

\* C12: get_site_dos(site) for a site of the mapping returns a PhononDos with the
\* frequencies of the aggregate and the stored densities of that site, and leaves the
\* aggregate as it was; for any other site it raises KeyError(site), the unknown-site
\* error, and returns nothing.  An assignment to an element of an array of the
\* returned instance changes neither the frequencies, the densities nor a stored
\* site density of the aggregate.
C12_GetSiteDos ==
    [][/\ ret'.op = "get_site_dos" =>
              /\ AggregateView(heap') = AggregateView(heap)
              /\ IF dict_has(heap[1].pdos, ret'.other)
                 THEN /\ ret'.out.tag = "return"
                      /\ elements(heap', ret'.out.val.frequencies) = elements(heap, heap[1].frequencies)
                      /\ elements(heap', ret'.out.val.densities)
                             = elements(heap, dict_get(heap[1].pdos, ret'.other))
                 ELSE ret'.out = KeyError(ret'.other)
       /\ ret'.op = "__setitem__" => AggregateView(heap') = AggregateView(heap)]_vars

C12_Witness ==
    /\ ret.op = "__setitem__" /\ ret.other = Site(2)
    /\ elements(heap, ret.out.val.densities) = <<Overwritten, 2>>
    /\ elements(heap, dict_get(Aggregate.pdos, Site(2))) = <<2, 2>>

RECURSIVE SumOfSpecies(_, _, _, _)
\* elementwise sum of the stored densities of the sites k.. of the structure whose
\* species is el
SumOfSpecies(h, self, el, k) ==
    IF k > Len(self.structure) THEN [i \in 1..Len(elements(h, self.frequencies)) |-> 0]
    ELSE IF self.structure[k].specie = el /\ dict_has(self.pdos, self.structure[k])
         THEN [i \in 1..Len(elements(h, self.frequencies)) |->
                  elements(h, dict_get(self.pdos, self.structure[k]))[i] + SumOfSpecies(h, self, el, k + 1)[i]]
         ELSE SumOfSpecies(h, self, el, k + 1)

\* C13: get_element_dos() returns one entry per species among the stored sites (two
\* for a two-element compound with an entry for every site); each entry is a
\* PhononDos with the frequencies of the aggregate and, as densities, the elementwise
\* sum of the stored densities of the sites of that species, whatever the order of
\* the stored mapping.
C13_ElementDos ==
    ret.op = "get_element_dos" =>
        /\ ret.out.tag = "return"
        /\ \A a, b \in 1..Len(ret.out.val) : a # b => ret.out.val[a].key # ret.out.val[b].key
        /\ {ret.out.val[k].key : k \in 1..Len(ret.out.val)} = SpeciesOf(StoredSites(Aggregate))
        /\ \A k \in 1..Len(ret.out.val) :
               /\ elements(heap, ret.out.val[k].val.frequencies) = elements(heap, Aggregate.frequencies)
               /\ elements(heap, ret.out.val[k].val.densities)
                      = SumOfSpecies(heap, Aggregate, ret.out.val[k].key, 1)
        /\ (Len(Aggregate.pdos) = Len(Aggregate.structure)
                /\ Cardinality(SpeciesOf(Aggregate.structure)) = 2) => Len(ret.out.val) = 2

C13_Witness ==
    /\ ret.op = "get_element_dos" /\ ret.out.tag = "return"
    /\ Len(Aggregate.pdos) = 3 /\ Aggregate.pdos[1].key = Site(3) /\ Aggregate.pdos[3].key = Site(1)
    /\ elements(heap, Aggregate.pdos[1].val) = <<0, 2>> /\ elements(heap, Aggregate.pdos[3].val) = <<2, 2>>
    /\ \E k \in 1..Len(ret.out.val) :
           ret.out.val[k].key = "Na" /\ elements(heap, ret.out.val[k].val.densities) = <<2, 4>>

\* elementwise sum of the densities of all returned entries
RECURSIVE SumOfEntries(_, _, _)
SumOfEntries(h, entries, k) ==
    IF k > Len(entries) THEN [i \in 1..Len(elements(h, h[1].frequencies)) |-> 0]
    ELSE [i \in 1..Len(elements(h, h[1].frequencies)) |->
             elements(h, entries[k].val.densities)[i] + SumOfEntries(h, entries, k + 1)[i]]
\* elementwise sum of the stored densities of all sites
RECURSIVE SumOfStored(_, _)
SumOfStored(h, k) ==
    IF k > Len(h[1].pdos) THEN [i \in 1..Len(elements(h, h[1].frequencies)) |-> 0]
    ELSE [i \in 1..Len(elements(h, h[1].frequencies)) |->
             elements(h, h[1].pdos[k].val)[i] + SumOfStored(h, k + 1)[i]]
TwoElements == Cardinality(SpeciesOf(Aggregate.structure)) = 2

\* C14 (as claimed): for every CompletePhononDos of a two-element compound
\* get_element_dos() returns two PhononDos whose densities sum elementwise to the
\* total density of the aggregate.
C14_AsClaimed ==
    (ret.op = "get_element_dos" /\ TwoElements) =>
        /\ ret.out.tag = "return" /\ Len(ret.out.val) = 2
        /\ SumOfEntries(heap, ret.out.val, 1) = elements(heap, Aggregate.densities)

\* C14 (amended): for a CompletePhononDos of a two-element compound that stores a
\* density sequence for every site and whose total density is the elementwise sum of
\* the stored site densities, get_element_dos() returns two PhononDos whose densities
\* sum elementwise to the total density.
C14_Consistent ==
    (/\ ret.op = "get_element_dos" /\ TwoElements
     /\ Len(Aggregate.pdos) = Len(Aggregate.structure)
     /\ elements(heap, Aggregate.densities) = SumOfStored(heap, 1)) =>
        /\ ret.out.tag = "return" /\ Len(ret.out.val) = 2
        /\ SumOfEntries(heap, ret.out.val, 1) = elements(heap, Aggregate.densities)

C14_Witness ==
    /\ ret.op = "get_element_dos" /\ ret.out.tag = "return" /\ Len(ret.out.val) = 2
    /\ Len(Aggregate.pdos) = 3
    /\ elements(heap, Aggregate.densities) = SumOfStored(heap, 1)
    /\ elements(heap, Aggregate.densities) = <<4, 6>>

\* C15 (as claimed): every PhononDos that construction or + produced has as many
\* densities as frequencies.
C15_EqualLengths ==
    /\ \A i \in 1..Len(heap) : Len(heap[i].frequencies) = Len(heap[i].densities)
    /\ (ret.op \in {"__add__", "__radd__"} /\ ret.out.tag = "return") =>
           Len(ret.out.val.frequencies) = Len(ret.out.val.densities)

Model == heap[ret.self]
Scored == EnergyStructs[ret.structure]
IsEnergyOf(class) == ret.op = "get_energy" /\ Model.class = class

\* C17: get_energy of the site-count model is the number of sites of the structure,
\* whatever else the structure provides, and the model has no configuration field.
C17_SiteCount ==
    IsEnergyOf("NsitesModel") =>
        /\ ret.out = Return(NumInt(Len(Scored.sites)))
        /\ DOMAIN Model = {"class"}

C17_Witness ==
    /\ IsEnergyOf("NsitesModel") /\ Len(Scored.sites) = 4 /\ ret.out.val.num = 4
    /\ Cardinality({Scored.sites[k].symbol : k \in 1..4}) = 2

\* C18: get_energy of the symmetry model is minus the space-group number detection
\* finds at the configured symprec and angle tolerance; of two structures, the one
\* with the greater detected number has the smaller energy.
C18_Symmetry ==
    IsEnergyOf("SymmetryModel") =>
        /\ ret.out = Return(NumInt(-Scored.spacegroup[<<Model.symprec, Model.angle_tolerance>>]))
        /\ \A a, b \in 1..Len(EnergyStructs) :
               EnergyStructs[a].spacegroup[<<Model.symprec, Model.angle_tolerance>>]
                   < EnergyStructs[b].spacegroup[<<Model.symprec, Model.angle_tolerance>>]
               => FracLess(get_energy(Model, EnergyStructs[b]).val, get_energy(Model, EnergyStructs[a]).val)

C18_Witness ==
    /\ IsEnergyOf("SymmetryModel") /\ Model.symprec # SymprecDefault
    /\ ret.out.val.num = -2 /\ Scored.spacegroup[<<SymprecDefault, AngleToleranceDefault>>] = 225

CarriesSpin(specie) == "spin" \in specie.attrs
\* SUM over the bonds k.. within radius r (with_spin: only those both of whose sites
\* carry a spin) of j * spin(a) * spin(b) / dist^2, as a fraction
RECURSIVE PairSum(_, _, _, _, _)
PairSum(j, r, structure, k, with_spin) ==
    IF k > Len(structure.bonds) THEN NumInt(0)
    ELSE IF /\ structure.bonds[k].dist <= r
            /\ with_spin => /\ CarriesSpin(structure.sites[structure.bonds[k].a])
                            /\ CarriesSpin(structure.sites[structure.bonds[k].b])
         THEN FracAdd(PairSum(j, r, structure, k + 1, with_spin),
                      Frac(j * structure.sites[structure.bonds[k].a].spin
                             * structure.sites[structure.bonds[k].b].spin,
                           structure.bonds[k].dist * structure.bonds[k].dist))
         ELSE PairSum(j, r, structure, k + 1, with_spin)
Twice(x) == [x EXCEPT !.num = 2 * x.num]

\* C19: get_energy of the Ising model is the sum over every site and every neighbour
\* entry the query at max_radius returns for it of j * spin * spin / distance^2: with
\* each pair listed from both of its ends, twice the sum over the pairs within
\* max_radius.
C19_IsingSum ==
    IsEnergyOf("IsingModel") =>
        /\ ret.out.tag = "return"
        /\ FracEq(ret.out.val, Twice(PairSum(Model.j, Model.max_radius, Scored, 1, FALSE)))

C19_Witness ==
    /\ IsEnergyOf("IsingModel") /\ Model.j = -2 /\ Model.max_radius = 2
    /\ Len(Scored.bonds) = 2 /\ FracEq(ret.out.val, Frac(-10, 1))

\* C20: in the Ising model a species without a spin attribute counts as spin 0 and
\* raises nothing: the energy is the sum over the pairs both of whose sites carry a
\* spin, and it is 0 for a structure in which no species carries one.
C20_MissingSpin ==
    IsEnergyOf("IsingModel") =>
        /\ ret.out.tag = "return"
        /\ FracEq(ret.out.val, Twice(PairSum(Model.j, Model.max_radius, Scored, 1, TRUE)))
        /\ (\A k \in 1..Len(Scored.sites) : ~CarriesSpin(Scored.sites[k])) => ret.out.val.num = 0

C20_Witness ==
    /\ IsEnergyOf("IsingModel") /\ Model.max_radius = 1 /\ Len(Scored.sites) = 2
    /\ \A k \in 1..Len(Scored.sites) : ~CarriesSpin(Scored.sites[k])
    /\ ret.out.val.type = "float" /\ ret.out.val.num = 0
\* C21: as_dict of a model of any variant lists, under init_args, exactly the names
\* of its constructor's parameters, and from_dict of its class on that dict returns a
\* model of the same class with the same configuration fields; a keyword the caller
\* left out at construction took its default (8.0, 0.1, 5) and comes back as that.
C21_ConfigRoundTrip ==
    /\ ret.op = "as_dict" =>
           /\ ret.out.val.class = Model.class
           /\ keys(ret.out.val.init_args) = parameters(Model.class)
           /\ DOMAIN Model = Range(parameters(Model.class)) \cup {"class"}
    /\ (ret.op = "from_dict" /\ ret.other = Model.class) => ret.out = Return(Model)
    /\ (ret.op = "__init__" /\ Model.class = "EwaldElectrostaticModel" /\ ~dict_has(ret.other, "acc_factor")) =>
           Model.acc_factor = AccFactorDefault
    /\ (ret.op = "__init__" /\ Model.class = "SymmetryModel" /\ ~dict_has(ret.other, "symprec")) =>
           Model.symprec = SymprecDefault
    /\ (ret.op = "__init__" /\ Model.class = "SymmetryModel" /\ ~dict_has(ret.other, "angle_tolerance")) =>
           Model.angle_tolerance = AngleToleranceDefault

C21_Witness ==
    /\ ret.op = "from_dict" /\ ret.other = "EwaldElectrostaticModel" /\ ret.out.tag = "return"
    /\ ret.out.val.acc_factor = AccFactorDefault /\ ret.out.val.real_space_cut = Float(5)
    /\ ret.out.val.eta = Float(1) /\ ret.out.val.recip_space_cut = None

\* the collaborator a variant calls, and the failure that collaborator ends in
CollaboratorOf(class) ==
    CASE class = "SymmetryModel" -> "SpacegroupAnalyzer"
      [] class = "EwaldElectrostaticModel" -> "EwaldSummation"
      [] class = "IsingModel" -> "get_all_neighbors"
      [] class = "NsitesModel" -> "none"
FailureOf(class) ==
    CASE class = "SymmetryModel" -> SymmetryUndetermined
      [] class = "EwaldElectrostaticModel" -> EwaldDiverged
      [] class = "IsingModel" -> NeighborQueryFailed
      [] class = "NsitesModel" -> [tag |-> "none"]

\* C22: when the collaborator of a variant fails, get_energy ends in that very
\* failure, not in another error and not in a returned energy; the failure of a
\* collaborator the variant does not call changes nothing.
C22_FailurePropagates ==
    ret.op = "get_energy" =>
        IF CollaboratorOf(Model.class) \in ret.other
        THEN ret.out = FailureOf(Model.class)
        ELSE ret.out = get_energy(Model, Scored)

C22_Witness ==
    /\ ret.op = "get_energy" /\ Model.class = "EwaldElectrostaticModel"
    /\ ret.other = {"EwaldSummation"} /\ ret.out = EwaldDiverged /\ Scored.total_energy = -40

\* the model a caller gets by constructing the class of m with the configuration of m
FreshModel(m) == new(m.class, EnergyModel_as_dict(m).init_args).val

\* C23: a get_energy call leaves every model as it was, a model holds its configuration
\* fields and nothing else, and the call returns what a newly constructed model of the
\* same configuration returns for the structure, whatever calls came before.
C23_Pure ==
    [][ret'.op = "get_energy" =>
           /\ heap' = heap
           /\ DOMAIN heap'[ret'.self] = Range(parameters(heap'[ret'.self].class)) \cup {"class"}
           /\ ret'.out = get_energy(FreshModel(heap'[ret'.self]), EnergyStructs[ret'.structure])]_vars

C23_Witness ==
    /\ ret.op = "get_energy" /\ Len(heap) = 2 /\ ret.self = 2 /\ Model.class = "IsingModel"
    /\ heap[1].class = "EwaldElectrostaticModel" /\ Model.max_radius = 2 /\ ret.structure = 4
    /\ FracEq(ret.out.val, Frac(5, 1))

\* ------------------------------------------------------------ thread claims
\* the shared instance as constructed
Constructed == PhononDos(heap[1].frequencies, heap[1].densities)
\* the call op(t) run alone on self: the instance it leaves and its outcome
Alone(op, t, self) ==
    CASE op = "ind_zero_freq" -> get_ind_zero_freq(self)
      [] op = "_positive_frequencies" -> get_positive_frequencies(self)
      [] op = "_positive_densities" -> get_positive_densities(self)
      [] op = "cv" -> cv(self, t, 0)
      [] op = "entropy" -> entropy(self, t, 0)
      [] op = "internal_energy" -> internal_energy(self, t, 0)
      [] op = "helmholtz_free_energy" -> helmholtz_free_energy(self, t, 0)
      [] op = "zero_point_energy" -> zero_point_energy(self, 0)
\* the instance after the calls of threads 1..k ran one after the other
RECURSIVE OneByOne(_)
OneByOne(k) ==
    IF k = 0 THEN Constructed ELSE Alone(ret[k].op, ret[k].t, OneByOne(k - 1)).self

\* C24: under every interleaving of the threads' steps, a call that ended has the
\* outcome the same call has when run alone, a cached field never holds another value
\* than the one a sequential run caches, and once all calls ended the instance is as
\* after running them one after the other.
C24_ThreadSafe ==
    /\ \A k \in 1..NThreads :
           ret[k].stage = "done" => ret[k].out = Alone(ret[k].op, ret[k].t, Constructed).out
    /\ \A name \in LazyNames :
           heap[1][name].set => Return(heap[1][name].v) = Alone(name, 0, Constructed).out
    /\ (\A k \in 1..NThreads : ret[k].stage = "done") => heap[1] = OneByOne(NThreads)

\* two threads both found the properties missing, both ran the bodies and both stored
C24_Witness ==
    /\ \A k \in 1..NThreads : ret[k].stage = "done" /\ ret[k].out.tag = "return"
    /\ ret[1].stores = 3 /\ ret[2].stores = 3
    /\ ret[1].op = "cv" /\ ret[2].op = "internal_energy" /\ Len(heap[1].frequencies) = 4

\* C25: a get_smeared_densities(sigma) call, for every sigma and however it ends,
\* leaves the frequencies, the densities and the cached derived fields of the instance
\* as they were, and an array it returns is a newly allocated one, as long as the
\* densities.
C25_SmearingFrame ==
    [][ret'.op = "get_smeared_densities" =>
           /\ heap' = heap
           /\ ret'.out.tag = "return" =>
                  /\ ret'.out.val.id = "new"
                  /\ Len(ret'.out.val.data) = Len(heap[ret'.self].densities)]_vars

C25_Witness ==
    /\ ret.op = "get_smeared_densities" /\ ret.out.tag = "return" /\ ret.other = 2
    /\ Receiver.frequencies = <<-1, 0, 2>> /\ Receiver.densities = <<2, 0, 2>>
    /\ Receiver._positive_densities = Cached(<<0, 2>>)
    /\ ret.out.val.data[3].sden = 3 /\ ret.out.val.data[3].snum = 4

\* ------------------------------------------------------------- unit claims
\* the same letter in either case
SameLetter(a, b) ==
    \/ a = b
    \/ \E k \in 1..Len(UpperCase) : {a, b} = {UpperCase[k], LowerCase[k]}
\* token is name in some casing, with nothing but whitespace before and after it
Spells(token, name) ==
    \E first \in 1..(Len(token) + 1) :
        /\ first + Len(name) - 1 <= Len(token)
        /\ \A k \in 1..Len(token) :
               IF k < first \/ k >= first + Len(name) THEN token[k] \in Whitespace
               ELSE SameLetter(token[k], name[k - first + 1])
UnitNames ==
    {<<"t", "h", "z">>, <<"e", "v">>, <<"m", "e", "v">>, <<"h", "a">>, <<"c", "m", "-", "1">>,
     <<"c", "m", "^", "-", "1">>}
LabelOf(name) ==
    CASE name = <<"t", "h", "z">> -> "THz"
      [] name = <<"e", "v">> -> "eV"
      [] name = <<"m", "e", "v">> -> "meV"
      [] name = <<"h", "a">> -> "Ha"
      [] OTHER -> "cm^{-1}"

\* C26: freq_units returns, for a token that spells one of thz, ev, mev, ha, cm-1,
\* cm^-1 in any casing between whitespace, the entry of that unit (factor 1 for thz,
\* one and the same entry for cm-1 and cm^-1), and for every other token raises the
\* KeyError naming the token; no token gets a default entry.
C26_FreqUnits ==
    ret.op = "freq_units" =>
        IF \E name \in UnitNames : Spells(ret.other, name)
        THEN /\ ret.out.tag = "return"
             /\ \A name \in UnitNames : Spells(ret.other, name) => ret.out.val.label = LabelOf(name)
             /\ ret.out.val.label = "THz" <=> ret.out.val.factor = [const |-> "1", scale |-> 0]
             /\ ret.out.val.label = "cm^{-1}" =>
                    ret.out.val.factor = [const |-> "hertz-inverse meter relationship", scale |-> 10]
             /\ ret.out.val.label = "meV" =>
                    ret.out.val.factor = [const |-> "hertz-electron volt relationship", scale |-> 15]
        ELSE ret.out = UnknownUnits(ret.other)

C26_Witness ==
    /\ ret.op = "freq_units" /\ ret.other = <<"\n", " ", "C", "M", "^", "-", "1", "\t">>
    /\ ret.out.tag = "return" /\ ret.out.val = freq_units(<<"c", "m", "-", "1">>).val
\* ------------------------------------------------------ immutability claims
\* what construction put into the instance in cell 1: the references and the arrays
Contents(h) ==
    [frequencies |-> <<h[1].frequencies, h[h[1].frequencies.at].data>>,
     densities |-> <<h[1].densities, h[h[1].densities.at].data>>,
     pdos |-> IF IsComplete(h)
              THEN [k \in 1..Len(h[1].pdos) |-> <<h[1].pdos[k].key, h[1].pdos[k].val, h[h[1].pdos[k].val.at].data>>]
              ELSE <<>>]
\* the instance as construction leaves it: the same arrays, nothing cached
AsConstructed(h) == PhononDos(h[h[1].frequencies.at].data, h[h[1].densities.at].data)
CachesCurrent(h) ==
    /\ h[1].ind_zero_freq.set => Return(h[1].ind_zero_freq.v) = ind_zero_freq(AsConstructed(h))
    /\ h[1]._positive_frequencies.set =>
           Return(h[1]._positive_frequencies.v) = get_positive_frequencies(AsConstructed(h)).out
    /\ h[1]._positive_densities.set =>
           Return(h[1]._positive_densities.v) = get_positive_densities(AsConstructed(h)).out
\* what the last query returns on an instance that has answered nothing yet
FirstAnswer(h) ==
    CASE ret.op = "cv" -> cv(AsConstructed(h), ret.t, ret.structure).out
      [] ret.op = "entropy" -> entropy(AsConstructed(h), ret.t, ret.structure).out
      [] ret.op = "internal_energy" -> internal_energy(AsConstructed(h), ret.t, ret.structure).out
      [] ret.op = "helmholtz_free_energy" -> helmholtz_free_energy(AsConstructed(h), ret.t, ret.structure).out
      [] ret.op = "zero_point_energy" -> zero_point_energy(AsConstructed(h), ret.structure).out
      [] ret.op = "__str__" -> __str__(AsConstructed(h)).out
      [] ret.op = "__repr__" ->
             __repr__(IF IsComplete(h) THEN "CompletePhononDos" ELSE "PhononDos", AsConstructed(h)).out
      [] ret.op = "__add__" -> __add__(AsConstructed(h), Operand(h, ret.other))
      [] OTHER -> ret.out

\* C27: no public operation changes the frequencies, the densities or the per-site
\* densities of the instance it is called on (nor which arrays these are); in every
\* state each cached field that is set equals the value recomputed from the arrays,
\* and every query returns what it returns on the instance as constructed, so a
\* repeated query returns the same value as the first.
C27_Immutable ==
    /\ [](CachesCurrent(heap) /\ ret.out = FirstAnswer(heap))
    /\ [][Contents(heap') = Contents(heap)]_vars

C27_Witness ==
    /\ IsComplete(heap) /\ heap[1]._positive_densities.set /\ heap[1]._positive_frequencies.v = <<0>>
    /\ ret.op = "get_element_dos" /\ ret.out.tag = "return" /\ Len(ret.out.val) = 2

\* --------------------------------------------------- axes of unequal length
\* C28 (as claimed): whenever the frequency axes of the two operands of + differ in
\* length, the combination ends in the incompatibility error and returns no instance.
C28_DifferentLengthsRejected ==
    (/\ ret.op \in {"__add__", "__radd__"}
     /\ Len(heap[ret.self].frequencies) # Len(heap[ret.other].frequencies))
        => ret.out = IncompatibleSpectra

\* ------------------------------------------------- frame of get_element_dos
\* the site mapping of the aggregate: per entry the site, the array and its elements
StoredEntries(h) ==
    [k \in 1..Len(h[1].pdos) |-> <<h[1].pdos[k].key, h[1].pdos[k].val, h[h[1].pdos[k].val.at].data>>]
\* the per-species densities a call of get_element_dos returned
PerSpecies(h, r) == [k \in 1..Len(r.out.val) |-> <<r.out.val[k].key, elements(h, r.out.val[k].val.densities)>>]

\* C29: no step changes an entry of the site mapping of the aggregate, a call of
\* get_element_dos included, although the call adds up arrays in place; what a call
\* returns for a species is the sum of the entries as they were before the call, and
\* a call right after another returns the same per-species densities.
C29_ElementDosFrame ==
    [][/\ StoredEntries(heap') = StoredEntries(heap)
       /\ ret'.op = "get_element_dos" =>
              /\ ret'.out.tag = "return"
              /\ \A k \in 1..Len(ret'.out.val) :
                     elements(heap', ret'.out.val[k].val.densities)
                         = SumOfSpecies(heap, heap[1], ret'.out.val[k].key, 1)
              /\ (ret.op = "get_element_dos" /\ ret.out.tag = "return") =>
                     PerSpecies(heap', ret') = PerSpecies(heap, ret)]_vars

C29_Witness ==
    /\ ret.op = "get_element_dos" /\ ret.out.tag = "return"
    /\ Len(heap[1].pdos) = 3 /\ heap[1].pdos[1].key = Site(1)
    /\ StoredEntries(heap)[1][3] = <<2, 2>> /\ StoredEntries(heap)[3][3] = <<2, 2>>
    /\ PerSpecies(heap, ret)[1] = <<"Na", <<4, 4>>>>

\* ------------------------------------------------- no positive frequencies
\* the reads of the fields derived from the positive part of the axis, repr among them
PositiveAccesses == {"ind_zero_freq", "_positive_frequencies", "_positive_densities", "__repr__"}
\* the thermodynamic calls that read those fields: all but cv and entropy at t = 0
ReadsPositive(r) ==
    \/ r.op \in {"internal_energy", "helmholtz_free_energy", "zero_point_energy"}
    \/ r.op \in {"cv", "entropy"} /\ r.t # 0

\* C30: on an instance none of whose frequencies is >= 0, every read of ind_zero_freq,
\* _positive_frequencies or _positive_densities and every repr() raises the
\* NoPositiveFrequencies error, however many accesses came before: no access stores
\* a value in one of the three fields, so none can succeed later.  The thermodynamic
\* calls that read the fields end in the same error.
C30_NoPositiveFrequencies ==
    \A i \in 1..Len(heap) :
        (\A k \in 1..Len(heap[i].frequencies) : heap[i].frequencies[k] < 0) =>
            /\ ~heap[i].ind_zero_freq.set
            /\ ~heap[i]._positive_frequencies.set
            /\ ~heap[i]._positive_densities.set
            /\ (ret.self = i /\ (ret.op \in PositiveAccesses \/ ReadsPositive(ret))) =>
                   ret.out = NoPositiveFrequencies

C30_Witness ==
    /\ heap[1].frequencies = <<-1, -1>>
    /\ ret.op = "__repr__" /\ ret.out = NoPositiveFrequencies
====
